---- MODULE Spec2Model ----
(***************************************************************************)
(* Model of the NodeLink Chord DHT (src/src/chord_node_v2.py): the ring    *)
(* state of every peer, the maintenance handlers (stabilize, fix_fingers,  *)
(* check_predecessor with validate/heal), join, graceful leave, crash, the *)
(* replicated file store and the distributed inverted index.               *)
(*                                                                         *)
(* A Node is identified by its node_id (Node.__eq__ compares node_id       *)
(* only), so peers are integers of the identifier ring.  Each handler is   *)
(* one atomic action; a request to a peer that is not running fails the    *)
(* way the socket call fails in the source (exception swallowed, None or   *)
(* False returned).                                                        *)
(***************************************************************************)
EXTENDS Integers, Sequences, FiniteSets, TLC

\* Number of identifier bits.  The source sets M = 8; the model uses a
\* smaller ring so that the state space stays finite and small.
M == 3

RING_SIZE == 2 ^ M

REPLICATION_FACTOR == 3

\* Python's None for an Optional[Node] / Optional[bytes].
None == -1

\* node ids of the peers of the general specification
Peers == {1, 3, 6}

\* node ids of the peers of the five-peer chain specification
ChainPeers == {1, 3, 4, 6, 7}

AllPeers == Peers \cup ChainPeers

\* at most this many store_file calls in one behaviour
MaxStores == 1

\* at most this many peers crash or leave in one behaviour
MaxDepartures == 1

\* search_files visits at most this many nodes
max_visits == 10

\* tokenize_filename is applied to every name whose part before the
\* extension has at most this length
MaxNameLen == 6

\* compute_relevance_score is applied to token lists of at most this length
MaxTokens == 3

\* the registry's clock is followed up to this time (seconds)
MaxTime == 15

\* monitor_heartbeats: an entry older than this is removed; the monitor
\* sleeps CheckInterval between two passes
HEARTBEAT_TIMEOUT == 10
CheckInterval == 5

Range(s) == {s[i] : i \in 1..Len(s)}

------------------------------------------------------------------------------
(* Strings are sequences of one-character strings.                          *)

Lower(c) ==
    CASE c = "A" -> "a"
      [] c = "B" -> "b"
      [] OTHER -> c

lower(s) == [i \in 1..Len(s) |-> Lower(s[i])]

\* the character class [\s\-_\.] of the split pattern
IsDelimiter(c) == c \in {" ", "-", "_", "."}

\* os.path.splitext(filename)[0]: the name up to the last dot, unless that
\* dot is leading (only dots before it)
splitext_root(s) ==
    LET dots == {i \in 1..Len(s) : s[i] = "."}
    IN  IF dots = {} THEN s
        ELSE LET d == CHOOSE i \in dots : \A j \in dots : j <= i
             IN  IF \E j \in 1..(d - 1) : s[j] # "."
                 THEN SubSeq(s, 1, d - 1)
                 ELSE s

\* re.split(r'[\s\-_\.]+', s) without its empty pieces: the maximal runs of
\* non-delimiter characters
split_segments(s) ==
    {SubSeq(s, i, j) : <<i, j>> \in
        {ij \in (1..Len(s)) \X (1..Len(s)) :
            /\ ij[1] <= ij[2]
            /\ \A k \in ij[1]..ij[2] : ~IsDelimiter(s[k])
            /\ (ij[1] = 1 \/ IsDelimiter(s[ij[1] - 1]))
            /\ (ij[2] = Len(s) \/ IsDelimiter(s[ij[2] + 1]))}}

\* the segments of length >= 2 alone, without partial_tokens
tokenize_whole_segments(filename) ==
    {t \in split_segments(lower(splitext_root(filename))) : Len(t) >= 2}

\* tokenize_filename: the result list(set(tokens + partial_tokens)) as a set
tokenize_filename(filename) ==
    LET name_without_ext == splitext_root(filename)
        tokens == {t \in split_segments(lower(name_without_ext)) : Len(t) >= 2}
        partial_tokens ==
            UNION {{SubSeq(t, 1, i) : i \in 3..(Len(t) - 1)} :
                      t \in {u \in tokens : Len(u) > 3}}
    IN  tokens \cup partial_tokens

\* some enumeration of a finite set as a list (the order of list(set(..)))
RECURSIVE list_of(_)
list_of(S) ==
    IF S = {} THEN <<>>
    ELSE LET x == CHOOSE y \in S : TRUE IN <<x>> \o list_of(S \ {x})

\* matches divided by the length of file_tokens in place of query_tokens
score_over_file_tokens(query_tokens, file_tokens) ==
    IF Len(query_tokens) = 0 \/ Len(file_tokens) = 0
    THEN [num |-> 0, den |-> 1]
    ELSE [num |-> Cardinality({i \in 1..Len(query_tokens) :
                                  query_tokens[i] \in {file_tokens[j] : j \in 1..Len(file_tokens)}}),
          den |-> Len(file_tokens)]

\* compute_relevance_score as the fraction num/den (0.0 is 0/1)
compute_relevance_score(query_tokens, file_tokens) ==
    IF Len(query_tokens) = 0 \/ Len(file_tokens) = 0
    THEN [num |-> 0, den |-> 1]
    ELSE [num |-> Cardinality({i \in 1..Len(query_tokens) :
                                  query_tokens[i] \in Range(file_tokens)}),
          den |-> Len(query_tokens)]

CharCode(c) ==
    CASE c = "a" -> 1
      [] c = "b" -> 2
      [] c = "c" -> 3
      [] c = "d" -> 4
      [] c = "x" -> 5
      [] c = "y" -> 6
      [] c = "t" -> 7
      [] c = "A" -> 9
      [] c = "B" -> 10
      [] c = "." -> 11
      [] c = "_" -> 12
      [] c = " " -> 13
      [] c = "-" -> 14
      [] OTHER -> 15

\* hash_key: SHA-1 of the string reduced mod RING_SIZE.  SHA-1 is abstracted
\* by a fixed positional checksum: deterministic, total, into [0, RING_SIZE).
RECURSIVE hash_sum(_, _)
hash_sum(s, i) ==
    IF i > Len(s) THEN 0 ELSE (CharCode(s[i]) * (2 * i + 1)) + hash_sum(s, i + 1)

hash_key(s) == hash_sum(s, 1) % RING_SIZE

------------------------------------------------------------------------------
(* Byte strings are sequences of 0..255.                                    *)

REPLACEMENT == 65533

\* bytes.decode('utf-8', errors='replace') on the byte strings of the model:
\* an ASCII byte is its code point, EF BF BD is U+FFFD, any other byte is an
\* invalid start byte and becomes U+FFFD
RECURSIVE utf8_decode_replace(_)
utf8_decode_replace(b) ==
    IF Len(b) = 0 THEN <<>>
    ELSE IF b[1] < 128 THEN <<b[1]>> \o utf8_decode_replace(Tail(b))
    ELSE IF Len(b) >= 3 /\ b[1] = 239 /\ b[2] = 191 /\ b[3] = 189
         THEN <<REPLACEMENT>> \o utf8_decode_replace(SubSeq(b, 4, Len(b)))
    ELSE <<REPLACEMENT>> \o utf8_decode_replace(Tail(b))

\* str.encode('utf-8') on the code points the decoder produces
RECURSIVE utf8_encode(_)
utf8_encode(s) ==
    IF Len(s) = 0 THEN <<>>
    ELSE (IF s[1] < 128 THEN <<s[1]>> ELSE <<239, 191, 189>>)
         \o utf8_encode(Tail(s))

\* what a byte string becomes when it crosses a JSON request or response
wire(b) == utf8_encode(utf8_decode_replace(b))

------------------------------------------------------------------------------
(* Ring arithmetic.                                                         *)

\* (start, end] with an empty interval when start = end
in_range_or_end(key, start, end) ==
    IF start = end THEN key = end
    ELSE IF start < end THEN start < key /\ key <= end
    ELSE key > start \/ key <= end

in_range(key, start, end) ==
    IF start < end THEN start < key /\ key <= end
    ELSE key > start \/ key <= end

\* ChordPeer.in_range(x, a, b, inclusive_right) of src/peer/chord_peer.py
ChordPeer_in_range(x, a, b, inclusive_right) ==
    IF a < b THEN (a < x /\ x < b) \/ (inclusive_right /\ x = b)
    ELSE IF a > b THEN x > a \/ x < b \/ (inclusive_right /\ x = b)
    ELSE x # a \/ (inclusive_right /\ x = b)

in_range_inclusive(key, start, end) ==
    IF start = end THEN TRUE
    ELSE IF start < end THEN start <= key /\ key <= end
    ELSE key >= start \/ key <= end

is_between(key, start, end) ==
    IF start = end THEN key # start
    ELSE IF start < end THEN start < key /\ key < end
    ELSE key > start \/ key < end

------------------------------------------------------------------------------
(* Inputs of the model.                                                     *)

\* filenames offered to store_file
Filenames == {<<"a", "b", "_", "c", "d", ".", "t">>,
              <<"x", "y", "a", "b", ".", "t">>}

\* byte strings offered to store_file: plain ASCII, empty, not valid UTF-8
Contents == {<<65>>, <<>>, <<255>>}

\* the byte strings that are non-empty ASCII text
PlainContents == {b \in Contents : Len(b) > 0 /\ \A i \in 1..Len(b) : b[i] < 128}

\* queries offered to search_files_distributed
Queries == {<<"a", "b">>, <<"x", "y", "a">>, <<"c", "d", " ", "a", "b">>}

\* a missing byte string: files[p][f] when peer p holds no record for f, and
\* the None that download_file returns
NoContent == <<-1>>

------------------------------------------------------------------------------
VARIABLES
    status,        \* per peer: "off", "joining" (join_ring sleeping before its
                   \* forced stabilize), "up", "stopped" (after stop), "crashed"
    successor,     \* ChordRing.successor
    predecessor,   \* ChordRing.predecessor (None when absent)
    finger_table,  \* ChordRing.finger_table, index 0..M-1
    next_finger,   \* ChordRing.next_finger
    files,         \* FileManager.files: filename -> content
    token_index,   \* FileManager.token_index as a set of postings
    puts,          \* history: per filename the last successful store_file
    hist,          \* history: counters and facts about past events
    leave,         \* the graceful_leave in progress: its peer, its position
                   \* and the files not yet sent
    search,        \* the search_files_distributed call in progress: its
                   \* peer, query, tokens not yet looked up and the
                   \* file_candidates collected so far
    registry,      \* BootstrapServer.nodes: the registry's entries in the
                   \* order of the dict
    now,           \* time.time() in seconds
    chord_node,    \* the chord.py Node of every address: whether its
                   \* process runs, its successor and its predecessor
    updates,       \* topology updates the registry has sent and no peer
                   \* has handled yet
    tokenized,     \* the last call of tokenize_filename: its argument and
                   \* its result
    call,          \* the call of a function under test: its name, its arguments and what it returned
    pinging,       \* the chord.py pinging loop of every address: num_pings,
                   \* succ_succ and (history) the consecutive failed probes
    rank,          \* the ranking of one search: the files of the index in
                   \* the order they were stored, the query's tokens in
                   \* the order they are looked up, file_candidates in
                   \* insertion order and the sorted results
    store          \* the store_file call in progress: its peer, arguments,
                   \* replica_nodes, position in the loop over them and the
                   \* nodes that stored the file

ringVars == <<successor, predecessor, finger_table>>

\* the calls in progress
\* state outside the calls in progress
sideVars == <<registry, now, chord_node, updates, rank, tokenized,
             call,
             pinging>>

opVars == <<leave, search, store, sideVars>>

vars == <<status, successor, predecessor, finger_table, next_finger, files,
          token_index, puts, hist, leave, search, store, sideVars>>

\* the peer's process is running and its server socket answers
Alive(q) == status[q] \in {"joining", "up"}

Live == {q \in AllPeers : Alive(q)}

------------------------------------------------------------------------------
(* ChordRing: routing.                                                      *)

\* the highest finger strictly between self and the key, else self
closest_preceding_node(p, key_id) ==
    LET ok == {i \in 0..(M - 1) :
                  /\ finger_table[p][i] # None
                  /\ finger_table[p][i] # p
                  /\ is_between(finger_table[p][i], p, key_id)}
    IN  IF ok = {} THEN p
        ELSE finger_table[p][CHOOSE i \in ok : \A j \in ok : j <= i]

\* find_successor at p.  held is the set of peers whose ring_lock is held
\* by a caller up the chain of forwarded requests: find_successor keeps
\* ring_lock across its remote call, so a request that comes back to one of
\* them blocks until the 5 s socket timeout and the caller gets None.
RECURSIVE find_successor(_, _, _)
find_successor(p, key_id, held) ==
    IF successor[p] = p THEN p
    ELSE IF in_range(key_id, p, successor[p]) THEN successor[p]
    ELSE LET closest == closest_preceding_node(p, key_id)
         IN  IF closest = p THEN successor[p]
             ELSE \* _remote_find_successor(closest, key_id)
                  IF ~Alive(closest) \/ closest \in (held \cup {p}) THEN None
                  ELSE find_successor(closest, key_id, held \cup {p})

\* _get_predecessor(node): the remote predecessor, None on any failure
get_predecessor(node) == IF Alive(node) THEN predecessor[node] ELSE None

\* _ping_node(node)
ping_node(node) == Alive(node)

\* ChordRing.notify at peer q for candidate node: the new predecessor of q
notify(q, node) ==
    IF predecessor[q] = None \/ in_range(node, predecessor[q], q)
    THEN node ELSE predecessor[q]

\* ChordRing.stabilize at p: p's successor after the round
stabilize_successor(p) ==
    IF successor[p] = p THEN p
    ELSE LET pred == get_predecessor(successor[p])
         IN  IF pred # None /\ pred # p /\ in_range(pred, p, successor[p])
             THEN pred ELSE successor[p]

\* ChordRing.stabilize at p: all predecessors after the round (the _notify
\* request reaches the new successor when it is running)
stabilize_predecessor(p) ==
    LET s == stabilize_successor(p)
    IN  IF successor[p] # p /\ s # p /\ Alive(s)
        THEN [predecessor EXCEPT ![s] = notify(s, p)]
        ELSE predecessor

\* ChordRing.fix_fingers at p for finger index i: the entry after the round
fix_finger_entry(p, i) ==
    LET start == (p + 2 ^ i) % RING_SIZE
        s == find_successor(p, start, {})
    IN  IF s # None THEN s ELSE finger_table[p][i]

------------------------------------------------------------------------------
(* ChordRing: check_predecessor_task = check_predecessor, then              *)
(* validate_ring_consistency, then heal_ring when that returned False.      *)

\* check_predecessor at p: the predecessor after the liveness probe
check_predecessor(p) ==
    IF predecessor[p] # None /\ ~ping_node(predecessor[p]) THEN None
    ELSE predecessor[p]

\* validate_ring_consistency at p: the finger table with dead entries cleared
validated_fingers(p) ==
    [i \in 0..(M - 1) |->
        LET finger == finger_table[p][i]
        IN  IF finger # None /\ finger # p /\ ~ping_node(finger) THEN None
            ELSE finger]

\* validate_ring_consistency at p, run after check_predecessor: no issue found
validate_ring_consistency(p) ==
    /\ ~(successor[p] = p /\ check_predecessor(p) # None)
    /\ ~(successor[p] # p /\ ~ping_node(successor[p]))
    /\ ~(check_predecessor(p) # None /\ ~ping_node(check_predecessor(p)))
    /\ validated_fingers(p) = finger_table[p]

\* ChordRing defines no _get_successor (it is a FileManager method), so the
\* call in _recover_successor raises AttributeError, which its except clause
\* swallows: the route through the predecessor never yields a successor.
ChordRingHasGetSuccessor == FALSE

\* _recover_successor at p, with the finger table and predecessor it sees
recover_successor(p, fingers, pred) ==
    LET ok == {i \in 0..(M - 1) :
                  /\ fingers[i] # None
                  /\ fingers[i] # p
                  /\ fingers[i] # successor[p]
                  /\ ping_node(fingers[i])}
        pred_successor ==
            IF ChordRingHasGetSuccessor /\ pred # None /\ pred # p /\ ping_node(pred)
            THEN successor[pred] ELSE None
    IN  IF ok # {} THEN fingers[CHOOSE i \in ok : \A j \in ok : i <= j]
        ELSE IF pred_successor # None /\ pred_successor # p /\ ping_node(pred_successor)
             THEN pred_successor
        ELSE p

\* the successor of p after check_predecessor_task
task_successor(p) ==
    IF validate_ring_consistency(p) THEN successor[p]
    ELSE IF successor[p] # p /\ ~ping_node(successor[p])
         THEN recover_successor(p, validated_fingers(p), check_predecessor(p))
         ELSE successor[p]

\* the predecessor of p after check_predecessor_task (heal_ring adopts the
\* successor's predecessor when p lies in [that, successor])
task_predecessor(p) ==
    LET pred == check_predecessor(p)
        succ == task_successor(p)
    IN  IF validate_ring_consistency(p) THEN pred
        ELSE IF pred = None /\ succ # p
             THEN LET succ_pred == get_predecessor(succ)
                  IN  IF /\ succ_pred # None
                         /\ succ_pred # p
                         /\ in_range_inclusive(p, succ_pred, succ)
                      THEN succ_pred ELSE None
             ELSE pred

------------------------------------------------------------------------------
(* The ring has settled: no maintenance handler of a running peer would     *)
(* change a successor, a predecessor or a finger.                           *)

Settled(p) ==
    /\ stabilize_successor(p) = successor[p]
    /\ stabilize_predecessor(p) = predecessor
    /\ task_successor(p) = successor[p]
    /\ task_predecessor(p) = predecessor[p]
    /\ validated_fingers(p) = finger_table[p]
    /\ successor[p] # p =>
           \A i \in 0..(M - 1) : fix_finger_entry(p, i) = finger_table[p][i]

Quiescent ==
    /\ \A p \in AllPeers : status[p] # "joining"
    /\ \A p \in Live : Settled(p)

------------------------------------------------------------------------------
(* FileManager.                                                             *)

\* _get_replica_nodes at p, as the list it builds
RECURSIVE replica_walk(_, _, _, _)
replica_walk(p, current_id, nodes, n) ==
    IF n = 0 THEN nodes
    ELSE LET node == find_successor(p, current_id, {})
         IN  IF node # None /\ node \notin Range(nodes)
             THEN replica_walk(p, (node + 1) % RING_SIZE, Append(nodes, node), n - 1)
             ELSE nodes

get_replica_nodes(p, file_hash) ==
    replica_walk(p, file_hash, <<>>, REPLICATION_FACTOR)

\* _store_file_on_node succeeds: locally always, remotely when the peer answers
store_succeeds(p, node) == node = p \/ Alive(node)

\* the bytes node holds after _store_file_on_node: the request carries
\* content.decode('utf-8', errors='replace') and the handler encodes it again
stored_content(p, node, content) == IF node = p THEN content ELSE wire(content)

\* _download_from_node
download_from_node(p, node, filename) ==
    IF node = p THEN files[p][filename]
    ELSE IF Alive(node) /\ files[node][filename] # NoContent
         THEN wire(files[node][filename])
         ELSE NoContent

\* download_file at p: the first replica whose content is truthy
RECURSIVE first_content(_, _, _, _)
first_content(p, nodes, filename, i) ==
    IF i > Len(nodes) THEN NoContent
    ELSE LET content == download_from_node(p, nodes[i], filename)
         IN  IF content # NoContent /\ Len(content) > 0 THEN content
             ELSE first_content(p, nodes, filename, i + 1)

download_file(p, filename) ==
    first_content(p, get_replica_nodes(p, hash_key(filename)), filename, 1)

\* _build_inverted_index: the peer that receives the posting of a token
\* (None when routing fails or the peer does not answer)
posting_target(p, token) ==
    LET responsible_node == find_successor(p, hash_key(token), {})
    IN  IF responsible_node # None /\ store_succeeds(p, responsible_node)
        THEN responsible_node ELSE None

\* the FileMetadata stored under a token
posting(token, filename, primary_node, content) ==
    [token |-> token, filename |-> filename, node_id |-> primary_node,
     all_tokens |-> tokenize_filename(filename), file_size |-> Len(content)]

\* token_index of every peer after _build_inverted_index at p (an upsert:
\* the same filename under the same token replaces the prior metadata)
build_inverted_index(p, filename, primary_node, content) ==
    [q \in AllPeers |->
        LET mine == {t \in tokenize_filename(filename) : posting_target(p, t) = q}
        IN  {x \in token_index[q] : ~(x.token \in mine /\ x.filename = filename)}
            \cup {posting(t, filename, primary_node, content) : t \in mine}]

\* _lookup_token at p: the postings of the token's TokenRecord
lookup_token(p, token) ==
    LET responsible_node == find_successor(p, hash_key(token), {})
    IN  IF responsible_node = None THEN {}
        ELSE IF responsible_node = p \/ Alive(responsible_node)
             THEN {x \in token_index[responsible_node] : x.token = token}
             ELSE {}

\* search_files_distributed at p for a query that is not blank: the set of
\* (filename, location, relevance) results
search_files_distributed(p, query) ==
    LET query_tokens == tokenize_filename(query)
        found == UNION {lookup_token(p, t) : t \in query_tokens}
    IN  {[filename |-> x.filename, location |-> x.node_id,
          score |-> compute_relevance_score(list_of(query_tokens),
                                            list_of(x.all_tokens))] : x \in found}

------------------------------------------------------------------------------
(* FileManager.search_files (the ring walk with substring match) and the    *)
(* whole of search_files_distributed, blank queries included.               *)

\* not query.strip(): the query is empty or whitespace only
is_blank(query) == \A i \in 1..Len(query) : query[i] = " "

\* query.lower() in filename.lower()
contains(query, filename) ==
    \E i \in 1..(Len(filename) + 1) :
        /\ i + Len(query) - 1 <= Len(filename)
        /\ \A j \in 1..Len(query) : Lower(filename[i + j - 1]) = Lower(query[j])

\* _search_on_node: the matching files of node, none when it does not answer
search_on_node(p, node, query) ==
    IF node = p \/ Alive(node)
    THEN {[filename |-> f, location |-> node] :
             f \in {g \in Filenames : files[node][g] # NoContent /\ contains(query, g)}}
    ELSE {}

\* get_successor asked of node by p: None when node does not answer
get_successor(p, node) ==
    IF node = p THEN successor[p]
    ELSE IF Alive(node) THEN successor[node] ELSE None

\* the while loop of search_files: at most max_visits = 10 nodes along the
\* successor pointers, ending when the walk is back at p or at a visited node
RECURSIVE search_walk(_, _, _, _, _)
search_walk(p, current_node, query, visited_nodes, visit_count) ==
    IF current_node = None \/ current_node \in visited_nodes \/ visit_count >= max_visits
    THEN {}
    ELSE LET node_results == search_on_node(p, current_node, query)
             next_node == get_successor(p, current_node)
         IN  IF next_node = None \/ next_node = p THEN node_results
             ELSE node_results \cup
                  search_walk(p, next_node, query,
                              visited_nodes \cup {current_node}, visit_count + 1)

search_files(p, query) == search_walk(p, p, query, {}, 0)

\* search_files_distributed(query) at p for any query: a blank query falls
\* back to search_files with relevance 1.0, a query without tokens gives no
\* result, any other query goes through the inverted index
search_any_query(p, query) ==
    IF is_blank(query)
    THEN {[filename |-> x.filename, location |-> x.location,
           score |-> [num |-> 1, den |-> 1]] : x \in search_files(p, query)}
    ELSE IF tokenize_filename(query) = {} THEN {}
    ELSE search_files_distributed(p, query)

\* queries whose token set is empty
EmptyQueries == {<<>>, <<" ">>, <<" ", " ">>, <<"_">>, <<"a">>}

------------------------------------------------------------------------------
(* History kept for the properties.                                         *)

NoPut == [content |-> NoContent, by |-> None, primary |-> None, quiet |-> FALSE,
          members |-> {}, replicas |-> {}]

\* the files every running peer can currently download with the bytes put
Retrievable ==
    {f \in Filenames :
        /\ puts[f] # NoPut
        /\ \A q \in Live : download_file(q, f) = puts[f].content}

\* the filenames each running peer currently finds for each query
Found ==
    [q \in AllPeers |-> [query \in Queries |->
        IF Alive(q) THEN {r.filename : r \in search_files_distributed(q, query)}
        ELSE {}]]

Started == {q \in AllPeers : status[q] # "off"}

\* no graceful_leave is in progress
NoLeave == [peer |-> None, pc |-> "idle", todo |-> {}]

\* no store_file is in progress
NoStore == [peer |-> None, pc |-> "idle", filename |-> <<>>, content |-> NoContent,
            replica_nodes |-> <<>>, next |-> 1, stored_on |-> {}]

\* no search_files_distributed is in progress
NoSearch == [peer |-> None, pc |-> "idle", query |-> <<>>, todo |-> {},
             file_candidates |-> {}]

NoCall == [pc |-> "idle", fn |-> "", args |-> <<>>, result |-> <<>>]

NoTokens == [pc |-> "idle", filename |-> <<>>, all_tokens |-> {}]

NoRank == [pc |-> "idle", query |-> <<>>, stored |-> <<>>, query_tokens |-> <<>>,
           file_candidates |-> <<>>, results |-> <<>>]

------------------------------------------------------------------------------
(* Initial state: every ChordNode constructed, none started.                *)

Init ==
    /\ status = [p \in AllPeers |-> "off"]
    /\ successor = [p \in AllPeers |-> p]
    /\ predecessor = [p \in AllPeers |-> None]
    /\ finger_table = [p \in AllPeers |-> [i \in 0..(M - 1) |-> None]]
    /\ next_finger = [p \in AllPeers |-> 0]
    /\ files = [p \in AllPeers |-> [f \in Filenames |-> NoContent]]
    /\ token_index = [p \in AllPeers |-> {}]
    /\ puts = [f \in Filenames |-> NoPut]
    /\ hist = [stores |-> 0, founders |-> 0, departures |-> 0,
               quietDeparture |-> TRUE,
               members |-> {},
               handover |-> FALSE,
               singled |-> {},
               gettable |-> {},
               found |-> [q \in AllPeers |-> [query \in Queries |-> {}]]]
    /\ leave = NoLeave
    /\ search = NoSearch
    /\ store = NoStore
    /\ rank = NoRank
    /\ tokenized = NoTokens
    /\ registry = <<>>
    /\ now = 0
    /\ chord_node = [a \in Peers |-> [running |-> FALSE, starts |-> 0,
                                      successor |-> a, predecessor |-> a]]
    /\ updates = {}
    /\ pinging = [a \in Peers |-> [num_pings |-> 0, succ_succ |-> None, failed |-> 0]]
    /\ call = NoCall

------------------------------------------------------------------------------
(* Actions.                                                                 *)

\* ChordNode.start and join_ring at p with the peer list the bootstrap
\* returned: empty for the first peer (ring.join(None), a new ring), else one
\* registered peer existing_node.  When ring.join(existing_node) fails the
\* peer creates a new ring as well.
JoinRing(p, existing_node) ==
    /\ status[p] = "off"
    /\ IF Started = {} THEN existing_node = None ELSE existing_node \in Started
    /\ LET found_successor ==
               IF existing_node # None /\ Alive(existing_node)
               THEN find_successor(existing_node, p, {p})
               ELSE None
       IN  IF found_successor # None
           THEN /\ successor' = [successor EXCEPT ![p] = found_successor]
                /\ predecessor' = [predecessor EXCEPT ![p] = None]
                /\ status' = [status EXCEPT ![p] = "joining"]
                /\ UNCHANGED hist
           ELSE /\ successor' = [successor EXCEPT ![p] = p]
                /\ predecessor' = [predecessor EXCEPT ![p] = None]
                /\ status' = [status EXCEPT ![p] = "up"]
                /\ hist' = [hist EXCEPT !.founders = @ + 1]
    /\ UNCHANGED <<finger_table, next_finger, files, token_index, puts>>
    /\ UNCHANGED opVars

\* ring.stabilize at p, from the stabilize timer
Stabilize(p) ==
    /\ Alive(p)
    /\ successor' = [successor EXCEPT ![p] = stabilize_successor(p)]
    /\ predecessor' = stabilize_predecessor(p)
    /\ UNCHANGED <<status, finger_table, next_finger, files, token_index, puts, hist>>
    /\ UNCHANGED opVars

\* the forced ring.stabilize that ends join_ring after its one-second sleep
ForcedStabilize(p) ==
    /\ status[p] = "joining"
    /\ status' = [status EXCEPT ![p] = "up"]
    /\ successor' = [successor EXCEPT ![p] = stabilize_successor(p)]
    /\ predecessor' = stabilize_predecessor(p)
    /\ UNCHANGED <<finger_table, next_finger, files, token_index, puts, hist>>
    /\ UNCHANGED opVars

\* ring.fix_fingers at p, from the fix_fingers timer
FixFingers(p) ==
    /\ Alive(p)
    /\ IF successor[p] = p
       THEN UNCHANGED <<finger_table, next_finger>>
       ELSE LET next == (next_finger[p] + 1) % M
            IN  /\ next_finger' = [next_finger EXCEPT ![p] = next]
                /\ finger_table' =
                       [finger_table EXCEPT ![p][next] = fix_finger_entry(p, next)]
    /\ UNCHANGED <<status, successor, predecessor, files, token_index, puts, hist>>
    /\ UNCHANGED opVars

\* check_predecessor_task at p, from the check_predecessor timer
CheckPredecessorTask(p) ==
    /\ Alive(p)
    /\ successor' = [successor EXCEPT ![p] = task_successor(p)]
    /\ predecessor' = [predecessor EXCEPT ![p] = task_predecessor(p)]
    /\ finger_table' = [finger_table EXCEPT ![p] = validated_fingers(p)]
    /\ hist' = [hist EXCEPT !.singled =
                    IF successor[p] # p /\ task_successor(p) = p
                    THEN @ \cup {p} ELSE @]
    /\ UNCHANGED <<status, next_finger, files, token_index, puts>>
    /\ UNCHANGED opVars

\* FileManager.store_file(filename, content) called at p
StoreFile(p, filename, content) ==
    /\ status[p] = "up"
    /\ hist.stores < MaxStores
    /\ LET file_hash == hash_key(filename)
           responsible_node == find_successor(p, file_hash, {})
           replica_nodes == get_replica_nodes(p, file_hash)
           stored_on == {node \in Range(replica_nodes) : store_succeeds(p, node)}
       IN  IF responsible_node = None \/ stored_on = {}
           THEN \* store_file returns False
                UNCHANGED <<files, token_index, puts>>
           ELSE \* store_file returns True
                /\ files' = [q \in AllPeers |->
                       IF q \in stored_on
                       THEN [files[q] EXCEPT ![filename] =
                                 stored_content(p, q, content)]
                       ELSE files[q]]
                /\ token_index' =
                       build_inverted_index(p, filename, replica_nodes[1], content)
                /\ puts' = [puts EXCEPT ![filename] =
                               [content |-> content, by |-> p,
                                primary |-> replica_nodes[1],
                                quiet |-> Quiescent, members |-> Live,
                                replicas |-> stored_on]]
    /\ hist' = [hist EXCEPT !.stores = @ + 1]
    /\ UNCHANGED <<status, successor, predecessor, finger_table, next_finger>>
    /\ UNCHANGED opVars

\* ChordNode.stop at p: graceful_leave, then the timers and the server end.
\* graceful_leave sends every local file to the successor (transfer_file),
\* update_successor to the predecessor and update_predecessor to the
\* successor; each request is lost when its receiver does not answer.
Stop(p) ==
    /\ status[p] = "up"
    /\ hist.departures < MaxDepartures
    /\ LET succ == successor[p]
           pred == predecessor[p]
           new_predecessor == IF pred # None /\ pred # p THEN pred ELSE None
       IN  IF succ # p
           THEN /\ files' =
                    IF Alive(succ)
                    THEN [files EXCEPT ![succ] =
                             [f \in Filenames |->
                                 IF files[p][f] # NoContent THEN wire(files[p][f])
                                 ELSE files[succ][f]]]
                    ELSE files
                /\ successor' =
                    IF pred # None /\ pred # p /\ Alive(pred)
                    THEN [successor EXCEPT ![pred] = succ]
                    ELSE successor
                /\ predecessor' =
                    IF Alive(succ)
                    THEN [predecessor EXCEPT ![succ] = new_predecessor]
                    ELSE predecessor
           ELSE UNCHANGED <<files, successor, predecessor>>
    /\ status' = [status EXCEPT ![p] = "stopped"]
    /\ hist' = [hist EXCEPT !.departures = @ + 1,
                            !.quietDeparture = @ /\ Quiescent,
                            !.members = Live,
                            !.handover = (successor[p] # p),
                            !.gettable = Retrievable,
                            !.found = Found]
    /\ UNCHANGED <<finger_table, next_finger, token_index, puts>>
    /\ UNCHANGED opVars

\* the process of p is killed: no graceful leave
Crash(p) ==
    /\ Alive(p)
    /\ hist.departures < MaxDepartures
    /\ status' = [status EXCEPT ![p] = "crashed"]
    /\ hist' = [hist EXCEPT !.departures = @ + 1,
                            !.quietDeparture = @ /\ Quiescent,
                            !.members = Live,
                            !.gettable = Retrievable]
    /\ UNCHANGED <<successor, predecessor, finger_table, next_finger, files,
                   token_index, puts>>
    /\ UNCHANGED opVars

------------------------------------------------------------------------------
(* Specifications.                                                          *)

\* Peers start, the timers fire in any order, and store_file is offered every
\* byte string of Contents; no peer crashes or leaves.
Next ==
    \/ \E p \in Peers : \E existing_node \in Peers \cup {None} :
           JoinRing(p, existing_node)
    \/ \E p \in Peers : ForcedStabilize(p)
    \/ \E p \in Peers : Stabilize(p)
    \/ \E p \in Peers : FixFingers(p)
    \/ \E p \in Peers : CheckPredecessorTask(p)
    \/ \E p \in Peers : \E filename \in Filenames : \E content \in Contents :
           StoreFile(p, filename, content)

Spec == Init /\ [][Next]_vars

\* The same with one graceful leave (stop) of any running peer at any time.
NextLeave ==
    \/ \E p \in Peers : \E existing_node \in Peers \cup {None} :
           JoinRing(p, existing_node)
    \/ \E p \in Peers : ForcedStabilize(p)
    \/ \E p \in Peers : Stabilize(p)
    \/ \E p \in Peers : FixFingers(p)
    \/ \E p \in Peers : CheckPredecessorTask(p)
    \/ \E p \in Peers : \E filename \in Filenames : \E content \in PlainContents :
           StoreFile(p, filename, content)
    \/ \E p \in Peers : Stop(p)

SpecLeave == Init /\ [][NextLeave]_vars

\* The same with one crash of any running peer at any time.
NextCrash ==
    \/ \E p \in Peers : \E existing_node \in Peers \cup {None} :
           JoinRing(p, existing_node)
    \/ \E p \in Peers : ForcedStabilize(p)
    \/ \E p \in Peers : Stabilize(p)
    \/ \E p \in Peers : FixFingers(p)
    \/ \E p \in Peers : CheckPredecessorTask(p)
    \/ \E p \in Peers : \E filename \in Filenames : \E content \in PlainContents :
           StoreFile(p, filename, content)
    \/ \E p \in Peers : Crash(p)

SpecCrash == Init /\ [][NextCrash]_vars

------------------------------------------------------------------------------
(* The five-peer chain specification: the same handlers under one schedule. *)
(* Peers join one at a time, each after the ring has settled; between joins *)
(* the timers fire in a fixed priority (the lowest peer whose stabilize     *)
(* round changes something, then check_predecessor_task, then fix_fingers), *)
(* and no peer crashes or leaves.  Every behaviour of SpecChain is a        *)
(* behaviour of the handlers above.                                         *)

StabilizeChanges(p) ==
    \/ stabilize_successor(p) # successor[p]
    \/ stabilize_predecessor(p) # predecessor

TaskChanges(p) ==
    \/ task_successor(p) # successor[p]
    \/ task_predecessor(p) # predecessor[p]
    \/ validated_fingers(p) # finger_table[p]

FingerChanges(p) ==
    /\ successor[p] # p
    /\ \E i \in 0..(M - 1) : fix_finger_entry(p, i) # finger_table[p][i]

\* p is the lowest running peer whose stabilize round changes something
FirstStabilize(p) ==
    /\ Alive(p)
    /\ StabilizeChanges(p)
    /\ \A q \in Live : StabilizeChanges(q) => p <= q

\* p is the lowest running peer whose check_predecessor_task changes something
FirstTask(p) ==
    /\ Alive(p)
    /\ TaskChanges(p)
    /\ \A q \in Live : TaskChanges(q) => p <= q

\* p is the lowest running peer whose fix_fingers changes a finger
FirstFinger(p) ==
    /\ Alive(p)
    /\ FingerChanges(p)
    /\ \A q \in Live : FingerChanges(q) => p <= q

NoneJoining == \A q \in AllPeers : status[q] # "joining"

ChainJoinRing(p, existing_node) ==
    /\ Quiescent
    /\ JoinRing(p, existing_node)

ChainStabilize(p) ==
    /\ NoneJoining
    /\ FirstStabilize(p)
    /\ Stabilize(p)

ChainCheckPredecessorTask(p) ==
    /\ NoneJoining
    /\ \A q \in Live : ~StabilizeChanges(q)
    /\ Quiescent \/ FirstTask(p)
    /\ CheckPredecessorTask(p)

ChainFixFingers(p) ==
    /\ NoneJoining
    /\ \A q \in Live : ~StabilizeChanges(q) /\ ~TaskChanges(q)
    /\ FirstFinger(p)
    /\ FixFingers(p)

ChainStoreFile(p, filename, content) ==
    /\ Quiescent
    /\ StoreFile(p, filename, content)

NextChain ==
    \/ \E p \in ChainPeers : \E existing_node \in ChainPeers \cup {None} :
           ChainJoinRing(p, existing_node)
    \/ \E p \in ChainPeers : ForcedStabilize(p)
    \/ \E p \in ChainPeers : ChainStabilize(p)
    \/ \E p \in ChainPeers : ChainCheckPredecessorTask(p)
    \/ \E p \in ChainPeers : ChainFixFingers(p)
    \/ \E p \in ChainPeers : \E filename \in Filenames : \E content \in PlainContents :
           ChainStoreFile(p, filename, content)

SpecChain == Init /\ [][NextChain]_vars

------------------------------------------------------------------------------
(* graceful_leave and search_files_distributed step by step.  graceful_leave *)
(* keeps the leaver's ring_lock from its first transfer to its last         *)
(* notification; a find_successor request forwarded to the leaver meanwhile *)
(* waits for that lock, and its caller either gets the answer when the lock *)
(* is released or gives up at its socket timeout and gets None.             *)

\* the peers whose ring_lock a graceful_leave in progress holds
Leaving == IF leave.pc \in {"lock_files", "transfer", "notify_predecessor",
                           "notify_successor"}
           THEN {leave.peer} ELSE {}

\* stop() is called at p: graceful_leave starts (it does nothing when the
\* successor is p itself)
BeginLeave(p) ==
    /\ status[p] = "up"
    /\ leave = NoLeave
    /\ hist.departures < MaxDepartures
    /\ leave' = IF successor[p] = p
                THEN [peer |-> p, pc |-> "stop", todo |-> {}]
                ELSE [peer |-> p, pc |-> "transfer",
                      todo |-> {f \in Filenames : files[p][f] # NoContent}]
    /\ hist' = [hist EXCEPT !.departures = @ + 1,
                            !.quietDeparture = @ /\ Quiescent,
                            !.members = Live,
                            !.handover = (successor[p] # p),
                            !.gettable = Retrievable,
                            !.found = Found]
    /\ UNCHANGED <<status, successor, predecessor, finger_table, next_finger, sideVars,
                   files, token_index, puts, search, store>>

\* _transfer_file_to_successor for one file of the leaver
LeaveTransfer(filename) ==
    /\ leave.pc = "transfer"
    /\ filename \in leave.todo
    /\ LET p == leave.peer
           succ == successor[p]
       IN  files' = IF Alive(succ)
                    THEN [files EXCEPT ![succ][filename] = wire(files[p][filename])]
                    ELSE files
    /\ leave' = [leave EXCEPT !.todo = @ \ {filename}]
    /\ UNCHANGED <<status, successor, predecessor, finger_table, next_finger, sideVars,
                   token_index, puts, hist, search, store>>

\* _notify_predecessor_of_departure, once every file has been sent
LeaveNotifyPredecessor ==
    /\ leave.pc \in {"transfer", "notify_predecessor"}
    /\ leave.todo = {}
    /\ LET p == leave.peer
           pred == predecessor[p]
       IN  successor' = IF pred # None /\ pred # p /\ Alive(pred)
                        THEN [successor EXCEPT ![pred] = successor[p]]
                        ELSE successor
    /\ leave' = [leave EXCEPT !.pc = "notify_successor"]
    /\ UNCHANGED <<status, predecessor, finger_table, next_finger, sideVars, files,
                   token_index, puts, hist, search, store>>

\* _notify_successor_of_departure
LeaveNotifySuccessor ==
    /\ leave.pc = "notify_successor"
    /\ LET p == leave.peer
           succ == successor[p]
           pred == predecessor[p]
           new_predecessor == IF pred # None /\ pred # p THEN pred ELSE None
       IN  predecessor' = IF Alive(succ)
                          THEN [predecessor EXCEPT ![succ] = new_predecessor]
                          ELSE predecessor
    /\ leave' = [leave EXCEPT !.pc = "stop"]
    /\ UNCHANGED <<status, successor, finger_table, next_finger, sideVars, files,
                   token_index, puts, hist, search, store>>

\* the rest of stop(): running = False, the timers and the server socket end
LeaveStop ==
    /\ leave.pc = "stop"
    /\ status' = [status EXCEPT ![leave.peer] = "stopped"]
    /\ leave' = [leave EXCEPT !.pc = "done"]
    /\ UNCHANGED <<successor, predecessor, finger_table, next_finger, sideVars, files,
                   token_index, puts, hist, search, store>>

\* _lookup_token at p while the peers of held keep their ring_lock
lookup_token_while(p, token, held) ==
    LET responsible_node == find_successor(p, hash_key(token), held)
    IN  IF responsible_node = None THEN {}
        ELSE IF responsible_node = p \/ Alive(responsible_node)
             THEN {x \in token_index[responsible_node] : x.token = token}
             ELSE {}

\* search_files_distributed(query) is called at p while another peer leaves
BeginSearch(p, query) ==
    /\ status[p] = "up"
    /\ search = NoSearch
    /\ leave.pc \notin {"idle", "done"}
    /\ p # leave.peer
    /\ tokenize_filename(query) # {}
    /\ search' = [peer |-> p, pc |-> "lookup", query |-> query,
                  todo |-> tokenize_filename(query), file_candidates |-> {}]
    /\ UNCHANGED <<status, successor, predecessor, finger_table, next_finger, sideVars,
                   files, token_index, puts, hist, leave, store>>

\* one pass of the loop over query_tokens: _lookup_token(token).  A request
\* that reaches a peer whose ring_lock is held is answered (held = {}) or
\* times out (held = Leaving).
SearchLookup(token) ==
    /\ search.pc = "lookup"
    /\ token \in search.todo
    /\ \E held \in {{}, Leaving} :
           search' = [search EXCEPT
                         !.todo = @ \ {token},
                         !.file_candidates =
                             @ \cup lookup_token_while(search.peer, token, held),
                         !.pc = IF search.todo = {token} THEN "done" ELSE "lookup"]
    /\ UNCHANGED <<status, successor, predecessor, finger_table, next_finger, sideVars,
                   files, token_index, puts, hist, leave, store>>

\* what the search in progress returns: a result per file candidate
search_results ==
    {[filename |-> x.filename, location |-> x.node_id,
      score |-> compute_relevance_score(list_of(tokenize_filename(search.query)),
                                        list_of(x.all_tokens))] :
        x \in search.file_candidates}

\* Three peers start one at a time and settle, a file is stored, one peer
\* leaves step by step while another searches; no timer fires during the
\* leave.
NextSearch ==
    \/ \E p \in Peers : \E existing_node \in Peers \cup {None} :
           leave = NoLeave /\ ChainJoinRing(p, existing_node)
    \/ \E p \in Peers : leave = NoLeave /\ ForcedStabilize(p)
    \/ \E p \in Peers : leave = NoLeave /\ ChainStabilize(p)
    \/ \E p \in Peers : leave = NoLeave /\ ChainCheckPredecessorTask(p)
    \/ \E p \in Peers : leave = NoLeave /\ ChainFixFingers(p)
    \/ \E p \in Peers : \E filename \in Filenames : \E content \in PlainContents :
           leave = NoLeave /\ ChainStoreFile(p, filename, content)
    \/ \E p \in Peers : Quiescent /\ BeginLeave(p)
    \/ \E filename \in Filenames : LeaveTransfer(filename)
    \/ LeaveNotifyPredecessor
    \/ LeaveNotifySuccessor
    \/ LeaveStop
    \/ \E p \in Peers : \E query \in Queries : BeginSearch(p, query)
    \/ \E token \in UNION {tokenize_filename(q) : q \in Queries} : SearchLookup(token)

SpecSearch == Init /\ [][NextSearch]_vars

------------------------------------------------------------------------------
(* store_file step by step: the replica list is computed first, then the    *)
(* file is sent to one node after the other, and a peer may stop answering  *)
(* in between.                                                              *)

\* store_file(filename, content) is called at p: find_successor and
\* _get_replica_nodes
BeginStore(p, filename, content) ==
    /\ status[p] = "up"
    /\ store = NoStore
    /\ hist.stores < MaxStores
    /\ LET file_hash == hash_key(filename)
           responsible_node == find_successor(p, file_hash, {})
       IN  store' = [peer |-> p,
                     pc |-> IF responsible_node = None THEN "failed" ELSE "storing",
                     filename |-> filename, content |-> content,
                     replica_nodes |-> IF responsible_node = None THEN <<>>
                                       ELSE get_replica_nodes(p, file_hash),
                     next |-> 1, stored_on |-> {}]
    /\ hist' = [hist EXCEPT !.stores = @ + 1]
    /\ UNCHANGED <<status, successor, predecessor, finger_table, next_finger, sideVars,
                   files, token_index, puts, leave, search>>

\* one pass of the loop over replica_nodes: _store_file_on_node(node)
StoreOnNode ==
    /\ store.pc = "storing"
    /\ Alive(store.peer)
    /\ store.next <= Len(store.replica_nodes)
    /\ LET p == store.peer
           node == store.replica_nodes[store.next]
       IN  IF store_succeeds(p, node)
           THEN /\ files' = [files EXCEPT ![node][store.filename] =
                                stored_content(p, node, store.content)]
                /\ store' = [store EXCEPT !.next = @ + 1,
                                          !.stored_on = @ \cup {node}]
           ELSE /\ UNCHANGED files
                /\ store' = [store EXCEPT !.next = @ + 1]
    /\ UNCHANGED <<status, successor, predecessor, finger_table, next_finger, sideVars,
                   token_index, puts, hist, leave, search>>

\* the end of store_file: success when success_count > 0, and then
\* _build_inverted_index with replica_nodes[0] as the primary node
FinishStore ==
    /\ store.pc = "storing"
    /\ Alive(store.peer)
    /\ store.next > Len(store.replica_nodes)
    /\ IF store.stored_on # {}
       THEN /\ token_index' = build_inverted_index(store.peer, store.filename,
                                                   store.replica_nodes[1],
                                                   store.content)
            /\ puts' = [puts EXCEPT ![store.filename] =
                           [content |-> store.content, by |-> store.peer,
                            primary |-> store.replica_nodes[1],
                            quiet |-> FALSE, members |-> Live,
                            replicas |-> store.stored_on]]
            /\ store' = [store EXCEPT !.pc = "returned True"]
       ELSE /\ UNCHANGED <<token_index, puts>>
            /\ store' = [store EXCEPT !.pc = "failed"]
    /\ UNCHANGED <<status, successor, predecessor, finger_table, next_finger, sideVars,
                   files, hist, leave, search>>

\* Three peers start one at a time and settle; one store_file runs step by
\* step and one peer may crash at any time.
NextStore ==
    \/ \E p \in Peers : \E existing_node \in Peers \cup {None} :
           ChainJoinRing(p, existing_node)
    \/ \E p \in Peers : ForcedStabilize(p)
    \/ \E p \in Peers : ChainStabilize(p)
    \/ \E p \in Peers : ChainCheckPredecessorTask(p)
    \/ \E p \in Peers : ChainFixFingers(p)
    \/ \E p \in Peers : \E filename \in Filenames : \E content \in PlainContents :
           Quiescent /\ BeginStore(p, filename, content)
    \/ StoreOnNode
    \/ FinishStore
    \/ \E p \in Peers : Crash(p)

SpecStore == Init /\ [][NextStore]_vars

------------------------------------------------------------------------------
(* The locks of one peer under stop() and store_file in two threads (the    *)
(* REST bridge runs both in its executor).  store_file takes file_lock and, *)
(* inside it, ring_lock for each find_successor; graceful_leave takes       *)
(* ring_lock and, inside it, file_lock for the transfers.  Both are RLocks: *)
(* a thread waits only for a lock another thread holds.                     *)

\* the store_file thread of p holds file_lock
StoreHoldsFileLock(p) ==
    store.peer = p /\ store.pc \in {"find_successor", "storing"}

\* the stop() thread of p holds file_lock
LeaveHoldsFileLock(p) == leave.peer = p /\ leave.pc = "transfer"

\* store_file(filename, content) is called at p and enters `with file_lock`
EnterStore(p, filename, content) ==
    /\ status[p] = "up"
    /\ store = NoStore
    /\ hist.stores < MaxStores
    /\ ~LeaveHoldsFileLock(p)
    /\ store' = [NoStore EXCEPT !.peer = p, !.pc = "find_successor",
                                !.filename = filename, !.content = content]
    /\ hist' = [hist EXCEPT !.stores = @ + 1]
    /\ UNCHANGED <<status, successor, predecessor, finger_table, next_finger, sideVars,
                   files, token_index, puts, leave, search>>

\* store_file, holding file_lock, gets ring_lock for find_successor and
\* _get_replica_nodes
RouteStore ==
    /\ store.pc = "find_successor"
    /\ Alive(store.peer)
    /\ store.peer \notin Leaving
    /\ LET p == store.peer
           file_hash == hash_key(store.filename)
           responsible_node == find_successor(p, file_hash, {})
       IN  store' = [store EXCEPT
                        !.pc = IF responsible_node = None THEN "failed"
                               ELSE "storing",
                        !.replica_nodes = IF responsible_node = None THEN <<>>
                                          ELSE get_replica_nodes(p, file_hash)]
    /\ UNCHANGED <<status, successor, predecessor, finger_table, next_finger, sideVars,
                   files, token_index, puts, hist, leave, search>>

\* the end of store_file; _build_inverted_index needs ring_lock for its
\* find_successor calls
LockedFinishStore ==
    /\ store.stored_on = {} \/ store.peer \notin Leaving
    /\ FinishStore

\* stop() is called at p: graceful_leave enters `with ring_lock`
EnterLeave(p) ==
    /\ status[p] = "up"
    /\ leave = NoLeave
    /\ hist.departures < MaxDepartures
    /\ leave' = [peer |-> p,
                 pc |-> IF successor[p] = p THEN "stop" ELSE "lock_files",
                 todo |-> {}]
    /\ hist' = [hist EXCEPT !.departures = @ + 1,
                            !.quietDeparture = @ /\ Quiescent,
                            !.members = Live,
                            !.handover = (successor[p] # p),
                            !.gettable = Retrievable,
                            !.found = Found]
    /\ UNCHANGED <<status, successor, predecessor, finger_table, next_finger, sideVars,
                   files, token_index, puts, search, store>>

\* graceful_leave, holding ring_lock, enters `with file_lock`
LockFilesLeave ==
    /\ leave.pc = "lock_files"
    /\ ~StoreHoldsFileLock(leave.peer)
    /\ leave' = [leave EXCEPT
                    !.pc = "transfer",
                    !.todo = {f \in Filenames : files[leave.peer][f] # NoContent}]
    /\ UNCHANGED <<status, successor, predecessor, finger_table, next_finger, sideVars,
                   files, token_index, puts, hist, search, store>>

\* a step of the stop() thread, or of the store_file thread of the same peer
StopCanProceed ==
    \/ LockFilesLeave
    \/ \E filename \in Filenames : LeaveTransfer(filename)
    \/ LeaveNotifyPredecessor
    \/ LeaveNotifySuccessor
    \/ LeaveStop
    \/ store.peer = leave.peer /\ (RouteStore \/ StoreOnNode \/ LockedFinishStore)

\* Three peers start one at a time and settle; then stop() and store_file
\* run step by step, possibly at the same peer; no timer fires during the
\* leave.
NextLocks ==
    \/ \E p \in Peers : \E existing_node \in Peers \cup {None} :
           leave = NoLeave /\ ChainJoinRing(p, existing_node)
    \/ \E p \in Peers : leave = NoLeave /\ ForcedStabilize(p)
    \/ \E p \in Peers : leave = NoLeave /\ ChainStabilize(p)
    \/ \E p \in Peers : leave = NoLeave /\ ChainCheckPredecessorTask(p)
    \/ \E p \in Peers : leave = NoLeave /\ ChainFixFingers(p)
    \/ \E p \in Peers : \E filename \in Filenames : \E content \in PlainContents :
           Quiescent /\ EnterStore(p, filename, content)
    \/ RouteStore
    \/ StoreOnNode
    \/ LockedFinishStore
    \/ \E p \in Peers : Quiescent /\ EnterLeave(p)
    \/ LockFilesLeave
    \/ \E filename \in Filenames : LeaveTransfer(filename)
    \/ LeaveNotifyPredecessor
    \/ LeaveNotifySuccessor
    \/ LeaveStop

SpecLocks == Init /\ [][NextLocks]_vars

------------------------------------------------------------------------------
(* The ranking of search_files_distributed as a function of what it is      *)
(* given: the files of the index in the order they were stored (a           *)
(* TokenRecord keeps its files in a dict, which iterates in insertion       *)
(* order) and the query's tokens in the order list(set(..)) produced them.  *)

\* filenames in the index when the ranking is taken
RankNames == {<<"a", "b", "_", "c", "d", ".", "t">>,
              <<"c", "d", "_", "a", "b", ".", "t">>,
              <<"a", "b", ".", "t">>,
              <<"a", "b", "_", "x", "y", ".", "t">>}

RankQueries == {<<"a", "b">>, <<"c", "d", " ", "a", "b">>}

\* the lists without repetition over a finite set S
RECURSIVE orders_of(_)
orders_of(S) ==
    IF S = {} THEN {<<>>}
    ELSE UNION {{<<x>> \o o : o \in orders_of(S \ {x})} : x \in S}

\* ord() of the characters of the model
ord(c) ==
    CASE c = " " -> 32
      [] c = "-" -> 45
      [] c = "." -> 46
      [] c = "A" -> 65
      [] c = "B" -> 66
      [] c = "_" -> 95
      [] c = "a" -> 97
      [] c = "b" -> 98
      [] c = "c" -> 99
      [] c = "d" -> 100
      [] c = "t" -> 116
      [] c = "x" -> 120
      [] c = "y" -> 121

\* a < b for str: the first differing character decides, a proper prefix is
\* smaller
RECURSIVE str_less(_, _)
str_less(a, b) ==
    IF Len(b) = 0 THEN FALSE
    ELSE IF Len(a) = 0 THEN TRUE
    ELSE IF a[1] # b[1] THEN ord(a[1]) < ord(b[1])
    ELSE str_less(Tail(a), Tail(b))

\* x < y and x = y for two relevance values num/den
score_less(x, y) == x.num * y.den < y.num * x.den
score_equal(x, y) == x.num * y.den = y.num * x.den

\* the loops over query_tokens, the token's record and the record's files:
\* a filename enters file_candidates the first time one of its tokens is
\* looked up
RECURSIVE collect_candidates(_, _, _)
collect_candidates(query_tokens, stored, file_candidates) ==
    IF Len(query_tokens) = 0 THEN file_candidates
    ELSE LET token == Head(query_tokens)
             is_new(i) == /\ token \in tokenize_filename(stored[i])
                          /\ stored[i] \notin Range(file_candidates)
             fresh == SelectSeq([i \in 1..Len(stored) |-> i], is_new)
         IN  collect_candidates(Tail(query_tokens), stored,
                 file_candidates \o [k \in 1..Len(fresh) |-> stored[fresh[k]]])

\* results.sort(key=lambda x: x[2], reverse=True): a stable sort, so results
\* of equal relevance keep the order they had
RECURSIVE sort_by_relevance(_)
sort_by_relevance(results) ==
    IF Len(results) = 0 THEN <<>>
    ELSE LET rest == sort_by_relevance(SubSeq(results, 1, Len(results) - 1))
             x == results[Len(results)]
             before == SelectSeq(rest, LAMBDA y : ~score_less(y.score, x.score))
             after == SelectSeq(rest, LAMBDA y : score_less(y.score, x.score))
         IN  before \o <<x>> \o after

\* the token lookups of one search: stored is the order the files were
\* stored in, token_order the order of the query's tokens
CollectCandidates(query, stored, token_order) ==
    /\ rank.pc = "idle"
    /\ rank' = [pc |-> "collected", query |-> query, stored |-> stored,
                query_tokens |-> token_order,
                file_candidates |-> collect_candidates(token_order, stored, <<>>),
                results |-> <<>>]
    /\ UNCHANGED <<status, successor, predecessor, finger_table, next_finger,
                   files, token_index, puts, hist, leave, search, store,
                   registry, now, chord_node, updates, tokenized,
                   call,
                   pinging>>

\* the relevance of every candidate, then the sort
SortResults ==
    /\ rank.pc = "collected"
    /\ rank' = [rank EXCEPT
                  !.pc = "sorted",
                  !.results = sort_by_relevance(
                      [i \in 1..Len(rank.file_candidates) |->
                          [filename |-> rank.file_candidates[i],
                           score |-> compute_relevance_score(rank.query_tokens,
                                        list_of(tokenize_filename(rank.file_candidates[i])))]])]
    /\ UNCHANGED <<status, successor, predecessor, finger_table, next_finger,
                   files, token_index, puts, hist, leave, search, store,
                   registry, now, chord_node, updates, tokenized,
                   call,
                   pinging>>

NextRank ==
    \/ \E query \in RankQueries : \E names \in SUBSET RankNames :
           \E stored \in orders_of(names) :
               \E token_order \in orders_of(tokenize_filename(query)) :
                   CollectCandidates(query, stored, token_order)
    \/ SortResults

SpecRank == Init /\ [][NextRank]_vars

------------------------------------------------------------------------------
(* The bootstrap registry (src/bootstrap_server.py) and the peers that use  *)
(* it (src/chord.py).  A peer's address stands for its key: hasher is       *)
(* injective on the addresses of the model.  The registry's dict is the     *)
(* sequence of its entries in insertion order.  Every handler runs under    *)
(* nodes_lock and is one action; send_topology_update runs in a thread of   *)
(* its own, so its message is in flight until the peer handles it.          *)

addrs(reg) == {reg[i].addr : i \in 1..Len(reg)}

index_of(reg, a) == CHOOSE i \in 1..Len(reg) : reg[i].addr = a

entry_of(reg, a) == reg[index_of(reg, a)]

\* BootstrapServer.find_successor on a registry that is not empty: the
\* first entry in key order whose key is >= key, else the smallest key
registry_find_successor(reg, key) ==
    LET keys == addrs(reg)
    IN  IF \E k \in keys : k >= key
        THEN CHOOSE k \in keys : k >= key /\ \A l \in keys : l >= key => k <= l
        ELSE CHOOSE k \in keys : \A l \in keys : k <= l

\* handle_register for node_addr at time t: the registry afterwards and
\* the response.  An entry that points to an address without an entry
\* raises KeyError after the new entry is written: the handler answers
\* error and keeps what it had written.
handle_register(reg, node_addr, t) ==
    IF Len(reg) = 0
    THEN [nodes |-> <<[addr |-> node_addr, successor |-> node_addr,
                       predecessor |-> node_addr, last_heartbeat |-> t]>>,
          response |-> "first_node", successor |-> node_addr,
          predecessor |-> node_addr]
    ELSE LET successor_addr == registry_find_successor(reg, node_addr)
             predecessor_addr == entry_of(reg, successor_addr).predecessor
             new_entry == [addr |-> node_addr, successor |-> successor_addr,
                           predecessor |-> predecessor_addr, last_heartbeat |-> t]
             reg1 == IF node_addr \in addrs(reg)
                     THEN [reg EXCEPT ![index_of(reg, node_addr)] = new_entry]
                     ELSE Append(reg, new_entry)
             reg2 == [reg1 EXCEPT ![index_of(reg1, successor_addr)].predecessor = node_addr]
         IN  IF predecessor_addr \in addrs(reg2)
             THEN [nodes |-> [reg2 EXCEPT ![index_of(reg2, predecessor_addr)].successor = node_addr],
                   response |-> "join_position", successor |-> successor_addr,
                   predecessor |-> predecessor_addr]
             ELSE [nodes |-> reg2, response |-> "error", successor |-> node_addr,
                   predecessor |-> node_addr]

\* del self.nodes[node_addr]
delete_entry(reg, a) == SelectSeq(reg, LAMBDA x : x.addr # a)

\* remove_node with notify_topology_change: the registry afterwards and the
\* topology updates handed to threads
remove_node(reg, node_addr) ==
    IF node_addr \notin addrs(reg) THEN [nodes |-> reg, sent |-> {}]
    ELSE LET successor_addr == entry_of(reg, node_addr).successor
             predecessor_addr == entry_of(reg, node_addr).predecessor
         IN  IF successor_addr = node_addr
             THEN [nodes |-> delete_entry(reg, node_addr), sent |-> {}]
             ELSE LET reg1 == IF successor_addr \in addrs(reg)
                              THEN [reg EXCEPT ![index_of(reg, successor_addr)].predecessor =
                                                   predecessor_addr]
                              ELSE reg
                      reg2 == IF predecessor_addr \in addrs(reg1)
                              THEN [reg1 EXCEPT ![index_of(reg1, predecessor_addr)].successor =
                                                    successor_addr]
                              ELSE reg1
                      reg3 == delete_entry(reg2, node_addr)
                  IN  [nodes |-> reg3,
                       sent |->
                         {[to |-> successor_addr, type |-> "topology_update_pred",
                           new_addr |-> predecessor_addr, removed |-> node_addr,
                           live_evicted |-> FALSE] :
                              x \in {y \in {successor_addr} : y \in addrs(reg3)}}
                         \cup
                         {[to |-> predecessor_addr, type |-> "topology_update_succ",
                           new_addr |-> successor_addr, removed |-> node_addr,
                           live_evicted |-> FALSE] :
                              x \in {y \in {predecessor_addr} : y \in addrs(reg3)}}]

\* the pass with >= in place of >: an entry exactly HEARTBEAT_TIMEOUT old
\* would be removed
failed_nodes_inclusive(reg, t) ==
    SelectSeq(reg, LAMBDA x : t - x.last_heartbeat >= HEARTBEAT_TIMEOUT)

\* the entries a monitor pass at time t finds failed, in dict order
failed_nodes(reg, t) ==
    SelectSeq(reg, LAMBDA x : t - x.last_heartbeat > HEARTBEAT_TIMEOUT)

\* for addr in failed_nodes: self.remove_node(addr)
RECURSIVE remove_all(_, _)
remove_all(reg, failed) ==
    IF Len(failed) = 0 THEN [nodes |-> reg, sent |-> {}]
    ELSE LET first == remove_node(reg, Head(failed).addr)
             rest == remove_all(first.nodes, Tail(failed))
         IN  [nodes |-> rest.nodes, sent |-> first.sent \cup rest.sent]

\* the processes started so far, and those of them that have ended
RECURSIVE sum_starts(_)
sum_starts(S) ==
    IF S = {} THEN 0
    ELSE LET a == CHOOSE x \in S : TRUE
         IN  chord_node[a].starts + sum_starts(S \ {a})

Started_processes == sum_starts(Peers)

Ended_processes ==
    Started_processes - Cardinality({a \in Peers : chord_node[a].running})

\* a process is started at address a: Node.join registers with the
\* registry, takes the position of the answer and tells its two neighbours
\* (change_pred_1 to the successor, then change_succ_1 to the predecessor,
\* in one try block; a neighbour that does not run refuses the connection)
NodeJoin(a) ==
    /\ ~chord_node[a].running
    /\ Started_processes < Cardinality(Peers) + MaxDepartures
    /\ LET r == handle_register(registry, a, now)
           s == r.successor
           q == r.predecessor
           joined == [chord_node EXCEPT ![a] = [running |-> TRUE,
                                                starts |-> chord_node[a].starts + 1,
                                                successor |-> s, predecessor |-> q]]
           told_successor == IF r.response = "join_position" /\ joined[s].running
                             THEN [joined EXCEPT ![s].predecessor = a]
                             ELSE joined
           told_predecessor ==
               IF r.response = "join_position" /\ joined[s].running
                  /\ told_successor[q].running
               THEN [told_successor EXCEPT ![q].successor = a]
               ELSE told_successor
       IN  /\ registry' = r.nodes
           /\ chord_node' = IF r.response = "error"
                            THEN [chord_node EXCEPT ![a].starts = @ + 1]
                            ELSE told_predecessor
    /\ UNCHANGED <<status, successor, predecessor, finger_table, next_finger,
                   files, token_index, puts, hist, leave, search, store,
                   now, updates, rank, tokenized,
                   call,
                   pinging>>

\* one round of send_heartbeat whose message reaches the registry:
\* handle_heartbeat refreshes the entry and answers ack, or answers
\* not_registered, which the peer prints
SendHeartbeat(a) ==
    /\ chord_node[a].running
    /\ registry' = IF a \in addrs(registry)
                THEN [registry EXCEPT ![index_of(registry, a)].last_heartbeat = now]
                ELSE registry
    /\ UNCHANGED <<status, successor, predecessor, finger_table, next_finger,
                   files, token_index, puts, hist, leave, search, store,
                   now, chord_node, updates, rank, tokenized,
                   call,
                   pinging>>

\* time.sleep(5) of the monitor
Tick ==
    /\ now + CheckInterval <= MaxTime
    /\ now' = now + CheckInterval
    /\ UNCHANGED <<status, successor, predecessor, finger_table, next_finger,
                   files, token_index, puts, hist, leave, search, store,
                   registry, chord_node, updates, rank, tokenized,
                   call,
                   pinging>>

\* one pass of monitor_heartbeats.  History: live_evicted marks the updates
\* sent for an entry whose process was running when it was removed.
MonitorHeartbeats ==
    /\ LET r == remove_all(registry, failed_nodes(registry, now))
       IN  /\ registry' = r.nodes
           /\ updates' = updates \cup
                  {[m EXCEPT !.live_evicted = chord_node[m.removed].running] :
                      m \in r.sent}
    /\ UNCHANGED <<status, successor, predecessor, finger_table, next_finger,
                   files, token_index, puts, hist, leave, search, store,
                   now, chord_node, rank, tokenized,
                   call,
                   pinging>>

\* every message send_topology_update can carry
TopologyUpdates ==
    [to : Peers, type : {"topology_update_pred", "topology_update_succ"},
     new_addr : Peers, removed : Peers, live_evicted : BOOLEAN]

\* send_topology_update reaches its target, whose handleConnection sets the
\* pointer; a target that does not run refuses the connection
HandleTopologyUpdate(m) ==
    /\ m \in updates
    /\ updates' = updates \ {m}
    /\ chord_node' = IF ~chord_node[m.to].running THEN chord_node
               ELSE IF m.type = "topology_update_pred"
                    THEN [chord_node EXCEPT ![m.to].predecessor = m.new_addr]
                    ELSE [chord_node EXCEPT ![m.to].successor = m.new_addr]
    /\ UNCHANGED <<status, successor, predecessor, finger_table, next_finger,
                   files, token_index, puts, hist, leave, search, store,
                   registry, now, rank, tokenized,
                   call,
                   pinging>>

\* quit_with_transfer: leave is sent to the registry (handle_leave removes
\* the entry), then the process ends
QuitWithTransfer(a) ==
    /\ chord_node[a].running
    /\ Ended_processes < MaxDepartures
    /\ LET r == remove_node(registry, a)
       IN  /\ registry' = r.nodes
           /\ updates' = updates \cup r.sent
    /\ chord_node' = [chord_node EXCEPT ![a].running = FALSE]
    /\ UNCHANGED <<status, successor, predecessor, finger_table, next_finger,
                   files, token_index, puts, hist, leave, search, store,
                   now, rank, tokenized,
                   call,
                   pinging>>

\* the process at address a is killed: its entry stays until the monitor
\* removes it
NodeCrash(a) ==
    /\ chord_node[a].running
    /\ Ended_processes < MaxDepartures
    /\ chord_node' = [chord_node EXCEPT ![a].running = FALSE]
    /\ UNCHANGED <<status, successor, predecessor, finger_table, next_finger,
                   files, token_index, puts, hist, leave, search, store,
                   registry, now, updates, rank, tokenized,
                   call,
                   pinging>>

NextRegistry ==
    \/ \E a \in Peers : NodeJoin(a)
    \/ \E a \in Peers : SendHeartbeat(a)
    \/ Tick
    \/ MonitorHeartbeats
    \/ \E m \in TopologyUpdates : HandleTopologyUpdate(m)
    \/ \E a \in Peers : QuitWithTransfer(a)
    \/ \E a \in Peers : NodeCrash(a)

SpecRegistry == Init /\ [][NextRegistry]_vars

------------------------------------------------------------------------------
(* tokenize_filename as a function of its argument.                         *)

NameAlphabet == {"a", "B", "_", "-", ".", " "}

\* every string of the alphabet up to MaxNameLen, as it is and followed by
\* the extension ".a"
Names ==
    LET short == UNION {[1..n -> NameAlphabet] : n \in 1..MaxNameLen}
    IN  short \cup {name \o <<".", "a">> : name \in short}

\* one call of tokenize_filename
Tokenize(filename) ==
    /\ tokenized.pc = "idle"
    /\ tokenized' = [pc |-> "returned", filename |-> filename,
                     all_tokens |-> tokenize_filename(filename)]
    /\ UNCHANGED <<status, successor, predecessor, finger_table, next_finger,
                   files, token_index, puts, hist, leave, search, store,
                   registry, now, chord_node, updates, rank,
                   call,
                   pinging>>

\* the caller drops the result
DropTokens ==
    /\ tokenized.pc = "returned"
    /\ tokenized' = NoTokens
    /\ UNCHANGED <<status, successor, predecessor, finger_table, next_finger,
                   files, token_index, puts, hist, leave, search, store,
                   registry, now, chord_node, updates, rank,
                   call,
                   pinging>>

NextTokens ==
    \/ tokenized.pc = "idle" /\ \E filename \in Names : Tokenize(filename)
    \/ DropTokens

SpecTokens == Init /\ [][NextTokens]_vars

------------------------------------------------------------------------------
(* compute_relevance_score as a function of its two token lists.            *)

ScoreTokens == {<<"a", "b">>, <<"c", "d">>, <<"x", "y", "a">>}

\* every list of tokens of at most MaxTokens entries, repetitions included
TokenLists == UNION {[1..n -> ScoreTokens] : n \in 0..MaxTokens}

\* one call of compute_relevance_score
ComputeScore(query_tokens, file_tokens) ==
    /\ call.pc = "idle"
    /\ call' = [pc |-> "returned", fn |-> "compute_relevance_score",
                args |-> <<query_tokens, file_tokens>>,
                result |-> compute_relevance_score(query_tokens, file_tokens)]
    /\ UNCHANGED <<status, successor, predecessor, finger_table, next_finger,
                   files, token_index, puts, hist, leave, search, store,
                   registry, now, chord_node, updates, rank, tokenized,
                   pinging>>

\* the caller takes the result; the next call may follow
Return ==
    /\ call.pc = "returned"
    /\ call' = NoCall
    /\ UNCHANGED <<status, successor, predecessor, finger_table, next_finger,
                   files, token_index, puts, hist, leave, search, store,
                   registry, now, chord_node, updates, rank, tokenized,
                   pinging>>

NextScore ==
    \/ call.pc = "idle" /\ \E query_tokens \in TokenLists : \E file_tokens \in TokenLists :
           ComputeScore(query_tokens, file_tokens)
    \/ Return

SpecScore == Init /\ [][NextScore]_vars

------------------------------------------------------------------------------
(* find_successor as a function of the ring it is called in: the three      *)
(* peers of Peers are up, every successor and predecessor pointer is        *)
(* correct, and each finger entry is empty or names some other peer.        *)

\* the peer of S that follows p clockwise, and the one that precedes it
next_peer(S, p) ==
    CHOOSE q \in S : \A r \in S :
        (q - p - 1 + RING_SIZE) % RING_SIZE <= (r - p - 1 + RING_SIZE) % RING_SIZE

previous_peer(S, p) ==
    CHOOSE q \in S : \A r \in S :
        (p - q - 1 + RING_SIZE) % RING_SIZE <= (p - r - 1 + RING_SIZE) % RING_SIZE

\* the finger tables a peer p of the ring can hold: every entry None or
\* another peer of the ring (an entry naming p itself is skipped by
\* _closest_preceding_node like an empty one)
FingerTables(p) == [0..(M - 1) -> {None} \cup (Peers \ {p})]

InitRing ==
    /\ status = [p \in AllPeers |-> IF p \in Peers THEN "up" ELSE "off"]
    /\ successor = [p \in AllPeers |-> IF p \in Peers THEN next_peer(Peers, p) ELSE p]
    /\ predecessor = [p \in AllPeers |->
                         IF p \in Peers THEN previous_peer(Peers, p) ELSE None]
    /\ \E tables \in [Peers -> [0..(M - 1) -> {None} \cup Peers]] :
           /\ \A p \in Peers : tables[p] \in FingerTables(p)
           /\ finger_table = [p \in AllPeers |->
                                 IF p \in Peers THEN tables[p]
                                 ELSE [i \in 0..(M - 1) |-> None]]
    /\ next_finger = [p \in AllPeers |-> 0]
    /\ files = [p \in AllPeers |-> [f \in Filenames |-> NoContent]]
    /\ token_index = [p \in AllPeers |-> {}]
    /\ puts = [f \in Filenames |-> NoPut]
    /\ hist = [stores |-> 0, founders |-> 1, departures |-> 0,
               quietDeparture |-> TRUE,
               members |-> Peers,
               handover |-> FALSE,
               singled |-> {},
               gettable |-> {},
               found |-> [q \in AllPeers |-> [query \in Queries |-> {}]]]
    /\ leave = NoLeave
    /\ search = NoSearch
    /\ store = NoStore
    /\ rank = NoRank
    /\ tokenized = NoTokens
    /\ registry = <<>>
    /\ now = 0
    /\ chord_node = [a \in Peers |-> [running |-> FALSE, starts |-> 0,
                                      successor |-> a, predecessor |-> a]]
    /\ updates = {}
    /\ pinging = [a \in Peers |-> [num_pings |-> 0, succ_succ |-> None, failed |-> 0]]
    /\ call = NoCall

\* ring.find_successor(key_id) is called at p
Lookup(p, key_id) ==
    /\ call.pc = "idle"
    /\ Alive(p)
    /\ call' = [pc |-> "returned", fn |-> "find_successor",
                args |-> <<p, key_id>>,
                result |-> find_successor(p, key_id, {})]
    /\ UNCHANGED <<status, successor, predecessor, finger_table, next_finger,
                   files, token_index, puts, hist, leave, search, store,
                   registry, now, chord_node, updates, rank, tokenized,
                   pinging>>

NextRouting ==
    \/ call.pc = "idle" /\ \E p \in Peers : \E key_id \in 0..(RING_SIZE - 1) :
           Lookup(p, key_id)
    \/ Return

SpecRouting == InitRing /\ [][NextRouting]_vars

------------------------------------------------------------------------------
(* graceful_leave from a stable ring.  The three peers start in a ring      *)
(* whose pointers are correct and in which no maintenance round changes     *)
(* anything; one of them stops step by step while the timers of every       *)
(* running peer keep firing.  The timers of the leaver wait for its         *)
(* ring_lock while graceful_leave holds it, and run again between the       *)
(* return of graceful_leave and `self.running = False`.                     *)

InitStable == InitRing /\ Quiescent

NextDepart ==
    \/ \E p \in Peers : p \notin Leaving /\ Stabilize(p)
    \/ \E p \in Peers : p \notin Leaving /\ FixFingers(p)
    \/ \E p \in Peers : p \notin Leaving /\ CheckPredecessorTask(p)
    \/ \E p \in Peers : \E filename \in Filenames : \E content \in PlainContents :
           leave = NoLeave /\ StoreFile(p, filename, content)
    \/ \E p \in Peers : BeginLeave(p)
    \/ \E filename \in Filenames : LeaveTransfer(filename)
    \/ LeaveNotifyPredecessor
    \/ LeaveNotifySuccessor
    \/ LeaveStop

SpecDepart == InitStable /\ [][NextDepart]_vars

------------------------------------------------------------------------------
(* The notify request handler.  A running peer of the stable ring receives  *)
(* notify requests naming any node id of the ring.                          *)

\* _process_request for {'type': 'notify', 'node': node} at q
NotifyRequest(q, node) ==
    /\ call.pc = "idle"
    /\ Alive(q)
    /\ predecessor' = [predecessor EXCEPT ![q] = notify(q, node)]
    /\ call' = [pc |-> "returned", fn |-> "notify",
                args |-> <<q, node, predecessor[q]>>,
                result |-> notify(q, node)]
    /\ UNCHANGED <<status, successor, finger_table, next_finger,
                   files, token_index, puts, hist, leave, search, store,
                   registry, now, chord_node, updates, rank, tokenized,
                   pinging>>

NextNotify ==
    \/ call.pc = "idle" /\ \E q \in Peers : \E node \in 0..(RING_SIZE - 1) :
           NotifyRequest(q, node)
    \/ Return

SpecNotify == InitStable /\ [][NextNotify]_vars

------------------------------------------------------------------------------
(* The interval tests as functions of their arguments.                      *)

Ids == 0..(RING_SIZE - 1)

\* in_range(key, start, end)
InRange(key, start, end) ==
    /\ call.pc = "idle"
    /\ call' = [pc |-> "returned", fn |-> "in_range",
                args |-> <<key, start, end>>,
                result |-> in_range(key, start, end)]
    /\ UNCHANGED <<status, successor, predecessor, finger_table, next_finger,
                   files, token_index, puts, hist, leave, search, store,
                   registry, now, chord_node, updates, rank, tokenized,
                   pinging>>

\* ChordRing._is_between(key, start, end)
IsBetween(key, start, end) ==
    /\ call.pc = "idle"
    /\ call' = [pc |-> "returned", fn |-> "_is_between",
                args |-> <<key, start, end>>,
                result |-> is_between(key, start, end)]
    /\ UNCHANGED <<status, successor, predecessor, finger_table, next_finger,
                   files, token_index, puts, hist, leave, search, store,
                   registry, now, chord_node, updates, rank, tokenized,
                   pinging>>

\* ChordPeer.in_range(x, a, b, inclusive_right)
PeerInRange(x, a, b, inclusive_right) ==
    /\ call.pc = "idle"
    /\ call' = [pc |-> "returned", fn |-> "ChordPeer.in_range",
                args |-> <<x, a, b, inclusive_right>>,
                result |-> ChordPeer_in_range(x, a, b, inclusive_right)]
    /\ UNCHANGED <<status, successor, predecessor, finger_table, next_finger,
                   files, token_index, puts, hist, leave, search, store,
                   registry, now, chord_node, updates, rank, tokenized,
                   pinging>>

NextInterval ==
    \/ call.pc = "idle" /\ \E key \in Ids : \E start \in Ids : \E end \in Ids :
           InRange(key, start, end)
    \/ call.pc = "idle" /\ \E key \in Ids : \E start \in Ids : \E end \in Ids :
           IsBetween(key, start, end)
    \/ call.pc = "idle" /\ \E x \in Ids : \E a \in Ids : \E b \in Ids :
           \E inclusive_right \in BOOLEAN : PeerInRange(x, a, b, inclusive_right)
    \/ Return

SpecInterval == Init /\ [][NextInterval]_vars

------------------------------------------------------------------------------
(* chord.py and chord_peer.py: the files a peer hands to a newcomer.  A      *)
(* file is named by a number; hasher maps the name to its key.              *)

\* the successor's primary list holds at most this many files
MaxFiles == 3

\* Node.hasher / hash_key applied to a file name (md5 or sha1 modulo the ring
\* size in the source): a fixed total map of the names onto the ring
hasher(file) == (5 * file + 3) % RING_SIZE

FileNames == 0..(RING_SIZE - 1)

\* the lists without repetition of at most MaxFiles file names
FileLists ==
    {l \in UNION {[1..n -> FileNames] : n \in 0..MaxFiles} :
        \A i \in 1..Len(l) : \A j \in 1..Len(l) : l[i] = l[j] => i = j}

\* Node.range_checker(file_key, new_node_key, old_key)
range_checker(file_key, new_node_key, old_key) ==
    \/ file_key = new_node_key
    \/ old_key > file_key /\ new_node_key > file_key

\* handleConnection, "succ_send_files_in_range": the files named in the reply
send_files_in_range(node_files, new_key, key) ==
    SelectSeq(node_files, LAMBDA file : range_checker(hasher(file), new_key, key))

\* list.remove(file): the list without the first occurrence of file
list_remove(l, file) ==
    LET i == CHOOSE k \in 1..Len(l) : l[k] = file /\ \A j \in 1..(k - 1) : l[j] # file
    IN  [k \in 1..(Len(l) - 1) |-> IF k < i THEN l[k] ELSE l[k + 1]]

\* handleConnection, "files_to_del": `for file in self.files: if file in
\* files_to_del: self.files.remove(file)`, the loop at index i of the list it
\* is shortening
RECURSIVE files_to_del_loop(_, _, _)
files_to_del_loop(node_files, i, files_to_del) ==
    IF i > Len(node_files) THEN node_files
    ELSE IF node_files[i] \in files_to_del
         THEN files_to_del_loop(list_remove(node_files, node_files[i]), i + 1,
                                files_to_del)
         ELSE files_to_del_loop(node_files, i + 1, files_to_del)

\* ChordPeer.notify of chord_peer.py: files_to_transfer
files_to_transfer(dht_storage, node_id, id) ==
    SelectSeq(dht_storage,
              LAMBDA file : ChordPeer_in_range(hasher(file), node_id, id, TRUE))

\* perform_file_rehashing at a newcomer with key new_key whose successor has
\* key succ_key and the primary list node_files: the files the newcomer
\* appends and the list the successor keeps after files_to_del
PerformFileRehashing(pred_key, new_key, succ_key, node_files) ==
    /\ call.pc = "idle"
    /\ LET file_list == send_files_in_range(node_files, new_key, succ_key)
       IN  call' = [pc |-> "returned", fn |-> "perform_file_rehashing",
                    args |-> <<pred_key, new_key, succ_key, node_files>>,
                    result |-> [moved |-> file_list,
                                kept |-> files_to_del_loop(node_files, 1,
                                                           Range(file_list))]]
    /\ UNCHANGED <<status, successor, predecessor, finger_table, next_finger,
                   files, token_index, puts, hist, leave, search, store,
                   registry, now, chord_node, updates, rank, tokenized,
                   pinging>>

\* ChordPeer.notify(node) at the successor of a newcomer: the transfer
PeerNotify(pred_key, new_key, succ_key, dht_storage) ==
    /\ call.pc = "idle"
    /\ LET moved == files_to_transfer(dht_storage, new_key, succ_key)
       IN  call' = [pc |-> "returned", fn |-> "ChordPeer.notify",
                    args |-> <<pred_key, new_key, succ_key, dht_storage>>,
                    result |-> [moved |-> moved,
                                kept |-> SelectSeq(dht_storage,
                                             LAMBDA file : file \notin Range(moved))]]
    /\ UNCHANGED <<status, successor, predecessor, finger_table, next_finger,
                   files, token_index, puts, hist, leave, search, store,
                   registry, now, chord_node, updates, rank, tokenized,
                   pinging>>

\* a newcomer with any key of Peers joins between the other two
NextRehash ==
    \/ call.pc = "idle" /\ \E new \in Peers : \E node_files \in FileLists :
           PerformFileRehashing(previous_peer(Peers, new), new,
                                next_peer(Peers, new), node_files)
    \/ call.pc = "idle" /\ \E new \in Peers : \E dht_storage \in FileLists :
           PeerNotify(previous_peer(Peers, new), new,
                      next_peer(Peers, new), dht_storage)
    \/ Return

SpecRehash == Init /\ [][NextRehash]_vars

------------------------------------------------------------------------------
(* chord.py: transfer_files_before_leaving.  Every file of self.files that  *)
(* exists in the node's directory is sent with put_file to the peer that    *)
(* random.choice picks.                                                     *)

\* the put_file requests of the loop: choice[i] is the value random.choice
\* returned for the i-th file
put_file_requests(node_files, choice, predecessor_addr, successor_addr, addr) ==
    [i \in 1..Len(node_files) |->
        [file |-> node_files[i],
         target_node |-> IF choice[i] /\ predecessor_addr # addr
                         THEN predecessor_addr ELSE successor_addr]]

\* transfer_files_before_leaving at the peer addr of a ring
TransferFilesBeforeLeaving(addr, node_files, choice) ==
    /\ call.pc = "idle"
    /\ call' = [pc |-> "returned", fn |-> "transfer_files_before_leaving",
                args |-> <<addr, node_files, next_peer(Peers, addr)>>,
                result |-> put_file_requests(node_files, choice,
                                             previous_peer(Peers, addr),
                                             next_peer(Peers, addr), addr)]
    /\ UNCHANGED <<status, successor, predecessor, finger_table, next_finger,
                   files, token_index, puts, hist, leave, search, store,
                   registry, now, chord_node, updates, rank, tokenized,
                   pinging>>

NextHandover ==
    \/ call.pc = "idle" /\ \E addr \in Peers : \E node_files \in FileLists :
           \E choice \in [1..Len(node_files) -> BOOLEAN] :
               TransferFilesBeforeLeaving(addr, node_files, choice)
    \/ Return

SpecHandover == Init /\ [][NextHandover]_vars

------------------------------------------------------------------------------
(* chord.py: the pinging loop, on the ring the registry builds.             *)

\* the consecutive failed probes of one peer are counted up to this number
MaxProbes == 3

\* BootstrapServer.handle_lookup answering the loop's "lookup <host> <port>":
\* int(message_parts[1]) is applied to the host name and raises ValueError
handle_lookup_of_address == "error lookup_failed"

\* one pass of the while loop of Node.pinging at address a
Pinging(a) ==
    /\ chord_node[a].running
    /\ pinging[a].failed < MaxProbes
    /\ LET succ == chord_node[a].successor
           probe_failed == succ \in Peers /\ succ # a /\ ~chord_node[succ].running
           \* the except branch: the successor the registry's answer names
           looked_up == IF probe_failed /\ handle_lookup_of_address = "successor"
                        THEN registry_find_successor(registry, a) ELSE succ
           num_tracer == pinging[a].num_pings = 2
           new_succ == pinging[a].succ_succ
           pred == chord_node[a].predecessor
           \* dead_ping at the new successor, answered by suc_suc_change_ping
           dead_ping_heard == new_succ \in Peers /\ chord_node[new_succ].running
           \* suc_suc_change_ping at the predecessor
           pred_heard == new_succ \in Peers /\ pred \in Peers /\ chord_node[pred].running
       IN  IF num_tracer
           THEN /\ chord_node' =
                    [b \in Peers |->
                        IF b = a THEN [chord_node[a] EXCEPT !.successor = new_succ]
                        ELSE IF b = new_succ /\ dead_ping_heard
                             THEN [chord_node[b] EXCEPT !.predecessor = a]
                             ELSE chord_node[b]]
                /\ pinging' =
                    [b \in Peers |->
                        IF b = a
                        THEN [num_pings |-> 0,
                              succ_succ |-> IF dead_ping_heard
                                            THEN chord_node[new_succ].successor
                                            ELSE new_succ,
                              failed |-> 0]
                        ELSE IF b = pred /\ pred_heard
                             THEN [pinging[b] EXCEPT !.succ_succ = new_succ]
                             ELSE pinging[b]]
           ELSE /\ chord_node' = [chord_node EXCEPT ![a].successor = looked_up]
                /\ pinging' = [pinging EXCEPT ![a].failed =
                                  IF probe_failed /\ looked_up = succ
                                  THEN @ + 1 ELSE 0]
    /\ UNCHANGED <<status, successor, predecessor, finger_table, next_finger,
                   files, token_index, puts, hist, leave, search, store,
                   registry, now, updates, rank, tokenized, call>>

\* Peers register and start, one of them is killed, the loops keep running.
NextPinging ==
    \/ \E a \in Peers : NodeJoin(a)
    \/ \E a \in Peers : NodeCrash(a)
    \/ \E a \in Peers : Pinging(a)

SpecPinging == Init /\ [][NextPinging]_vars

------------------------------------------------------------------------------
(* ChordNode._handle_client and _process_request for the requests that      *)
(* address the ring, at the peers of the stable ring.  A field the request  *)
(* does not carry reads as None (request.get).                              *)

\* ids no peer and no key can have
OutOfRangeIds == {RING_SIZE, RING_SIZE + 1}

\* requests with an unknown type, without their required field, or with an
\* id outside [0, RING_SIZE)
InvalidRequests ==
    {[type |-> "no_such_type", field |-> None]}
    \cup {[type |-> t, field |-> None] :
            t \in {"find_successor", "notify", "update_successor",
                   "update_predecessor"}}
    \cup {[type |-> t, field |-> id] :
            t \in {"find_successor", "notify"}, id \in OutOfRangeIds}

\* the response of _handle_client: that of _process_request, or the error
\* response when _process_request raises (None compared with an int in
\* in_range, None subscripted in the notify branch)
response_to(q, request) ==
    CASE request.type = "find_successor" ->
             IF request.field = None /\ successor[q] # q
             THEN [success |-> FALSE]
             ELSE [success |-> find_successor(q, request.field, {}) # None]
      [] request.type = "notify" ->
             [success |-> request.field # None]
      [] request.type = "update_successor" -> [success |-> TRUE]
      [] request.type = "update_predecessor" -> [success |-> TRUE]
      [] OTHER -> [success |-> FALSE]

\* _process_request(request) at the running peer q
ProcessRequest(q, request) ==
    /\ call.pc = "idle"
    /\ Alive(q)
    /\ predecessor' =
           CASE request.type = "notify" /\ request.field # None ->
                    [predecessor EXCEPT ![q] = notify(q, request.field)]
             [] request.type = "update_predecessor" /\ request.field = None ->
                    [predecessor EXCEPT ![q] = None]
             [] request.type = "update_predecessor" /\ request.field # None ->
                    [predecessor EXCEPT ![q] = request.field]
             [] OTHER -> predecessor
    /\ successor' =
           IF request.type = "update_successor" /\ request.field # None
           THEN [successor EXCEPT ![q] = request.field]
           ELSE successor
    /\ call' = [pc |-> "returned", fn |-> "_process_request",
                args |-> <<q, request, successor[q], predecessor[q]>>,
                result |-> response_to(q, request)]
    /\ UNCHANGED <<status, finger_table, next_finger,
                   files, token_index, puts, hist, leave, search, store,
                   registry, now, chord_node, updates, rank, tokenized, pinging>>

NextRequests ==
    \/ call.pc = "idle" /\ \E q \in Peers : \E request \in InvalidRequests :
           ProcessRequest(q, request)
    \/ Return

SpecRequests == InitStable /\ [][NextRequests]_vars

------------------------------------------------------------------------------
(* chord.py: joins through the registry, one message at a time.  The       *)
(* listener of a Node runs from its construction and gives every           *)
(* connection a thread of its own, so the messages of two joining peers    *)
(* are handled in any order.                                               *)

\* every answer of handle_register on its way to the joining peer, and every
\* change_pred_1 and change_succ_1 on its way to a neighbour
JoinMessages ==
    [to : Peers, type : {"first_node", "error"}]
    \cup [to : Peers, type : {"join_position"}, successor : Peers, predecessor : Peers]
    \cup [to : Peers, type : {"change_pred_1", "change_succ_1"}, addr : Peers]

\* a process is constructed at address a (successor and predecessor are the
\* peer itself, the listener runs) and Node.join sends register: the
\* registry handles it under nodes_lock and its answer is on the way
Register(a) ==
    /\ ~chord_node[a].running
    /\ chord_node[a].starts = 0
    /\ LET r == handle_register(registry, a, now)
       IN  /\ registry' = r.nodes
           /\ updates' = updates \cup
                  {IF r.response = "join_position"
                   THEN [to |-> a, type |-> "join_position",
                         successor |-> r.successor, predecessor |-> r.predecessor]
                   ELSE [to |-> a, type |-> r.response]}
    /\ chord_node' = [chord_node EXCEPT ![a] = [running |-> TRUE,
                                                starts |-> chord_node[a].starts + 1,
                                                successor |-> a, predecessor |-> a]]
    /\ UNCHANGED <<status, successor, predecessor, finger_table, next_finger,
                   files, token_index, puts, hist, leave, search, store,
                   now, rank, tokenized,
                   call,
                   pinging>>

\* Node.join takes the answer: first_node and join_position set both
\* pointers, and join_position is followed by notify_successor_predecessor,
\* which sends change_pred_1 to the successor and then change_succ_1 to the
\* predecessor in one try block
Join(m) ==
    /\ m \in updates
    /\ m.type \in {"first_node", "error", "join_position"}
    /\ LET a == m.to
       IN  IF m.type = "join_position"
           THEN /\ chord_node' = [chord_node EXCEPT ![a].successor = m.successor,
                                                    ![a].predecessor = m.predecessor]
                /\ updates' = (updates \ {m}) \cup
                       {[to |-> m.successor, type |-> "change_pred_1", addr |-> a] :
                            x \in {y \in {m.successor} : chord_node[y].running}}
                       \cup
                       {[to |-> m.predecessor, type |-> "change_succ_1", addr |-> a] :
                            x \in {y \in {m.predecessor} :
                                       /\ chord_node[m.successor].running
                                       /\ chord_node[y].running}}
           ELSE /\ chord_node' = IF m.type = "first_node"
                                 THEN [chord_node EXCEPT ![a].successor = a,
                                                         ![a].predecessor = a]
                                 ELSE chord_node
                /\ updates' = updates \ {m}
    /\ UNCHANGED <<status, successor, predecessor, finger_table, next_finger,
                   files, token_index, puts, hist, leave, search, store,
                   registry, now, rank, tokenized,
                   call,
                   pinging>>

\* handleConnection, branches change_pred_1 and change_succ_1
HandleChange(m) ==
    /\ m \in updates
    /\ m.type \in {"change_pred_1", "change_succ_1"}
    /\ updates' = updates \ {m}
    /\ chord_node' = IF m.type = "change_pred_1"
                     THEN [chord_node EXCEPT ![m.to].predecessor = m.addr]
                     ELSE [chord_node EXCEPT ![m.to].successor = m.addr]
    /\ UNCHANGED <<status, successor, predecessor, finger_table, next_finger,
                   files, token_index, puts, hist, leave, search, store,
                   registry, now, rank, tokenized,
                   call,
                   pinging>>

NextJoins ==
    \/ \E a \in Peers : Register(a)
    \/ \E m \in JoinMessages : Join(m)
    \/ \E m \in JoinMessages : HandleChange(m)

SpecJoins == Init /\ [][NextJoins]_vars

------------------------------------------------------------------------------
(* chord.py: where put stores a file and where get looks for it.  A ring is *)
(* a set of peer keys in which every peer's successor is the next key      *)
(* clockwise; the key of a peer stands for its address.                    *)

MaxRing == 4

\* the consistent rings of three peers or more
Rings == {S \in SUBSET Ids : Cardinality(S) >= 3 /\ Cardinality(S) <= MaxRing}

\* Node.lookup_file(key, File_name, curr_addr) at the peer self of the ring S
lookup_file(S, self, key, curr_addr) ==
    LET successor_key == next_peer(S, self)
    IN  IF self = key THEN curr_addr
        ELSE IF successor_key = self THEN curr_addr
        ELSE IF successor_key > self
             THEN IF key > self /\ key <= successor_key THEN successor_key
                  ELSE IF key <= self THEN curr_addr
                  ELSE successor_key
             ELSE IF key > self \/ key <= successor_key THEN successor_key
                  ELSE curr_addr

\* Node.get_file_lookup(key, File_name, curr_addr) at the peer self of the
\* ring S: an address, or None for (" ", 0) when it has sent get_lookup_file
\* to its successor
get_file_lookup(S, self, key, curr_addr) ==
    LET successor_key == next_peer(S, self)
    IN  IF self = key THEN curr_addr
        ELSE IF successor_key > self
             THEN IF successor_key > key /\ key > self THEN successor_key ELSE None
             ELSE IF key < successor_key \/ key > self THEN successor_key ELSE None

\* handleConnection, branch get_lookup_file, from peer to peer: the address
\* the getfunc_file_spot message to curr_addr carries, None when hops
\* forwards have not produced one
RECURSIVE get_lookup_file(_, _, _, _, _)
get_lookup_file(S, self, key, curr_addr, hops) ==
    LET tuple_ret == get_file_lookup(S, self, key, curr_addr)
    IN  IF tuple_ret # None THEN tuple_ret
        ELSE IF hops = 0 THEN None
        ELSE get_lookup_file(S, next_peer(S, self), key, curr_addr, hops - 1)

\* the peer get(fileName) at the peer self contacts
file_node_of_get(S, self, key) ==
    get_lookup_file(S, self, key, self, Cardinality(S))

\* put(fileName) at the peer putter and get(fileName) at the peer getter of
\* the ring S, for a file whose hash is key: the peers the two contact
PutThenGet(S, key, putter, getter) ==
    /\ call.pc = "idle"
    /\ call' = [pc |-> "returned", fn |-> "put_get",
                args |-> <<S, key, putter, getter>>,
                result |-> [put_file |-> lookup_file(S, putter, key, putter),
                            send_file |-> file_node_of_get(S, getter, key)]]
    /\ UNCHANGED <<status, successor, predecessor, finger_table, next_finger,
                   files, token_index, puts, hist, leave, search, store,
                   registry, now, chord_node, updates, rank, tokenized,
                   pinging>>

NextFileLookup ==
    \/ call.pc = "idle" /\ \E S \in Rings : \E key \in Ids :
           \E putter \in S : \E getter \in S : PutThenGet(S, key, putter, getter)
    \/ Return

SpecFileLookup == Init /\ [][NextFileLookup]_vars

------------------------------------------------------------------------------
(* chord_node_v2.py: two store_file calls at the same time.  store_file     *)
(* holds the file_lock of its own FileManager from its first line to its    *)
(* return; the store_file request takes the file_lock of the peer that      *)
(* receives it, so it waits while that peer is inside store_file, and the   *)
(* sender gives up after its socket timeout while the handler goes on       *)
(* waiting.                                                                 *)

\* the byte strings a store_file request carries unchanged
WireContents == {content \in Contents : wire(content) = content}

\* two peers are about to call store_file for one filename with different
\* contents.  In call.result, calls holds the two calls and requests the
\* store_file requests whose sender has timed out and whose handler waits
\* for the file_lock.
BeginStores(p, q, filename, content, other_content) ==
    /\ call.pc = "idle"
    /\ p # q /\ content # other_content
    /\ status[p] = "up" /\ status[q] = "up"
    /\ call' = [pc |-> "running", fn |-> "store_file",
                args |-> <<filename, p, content, q, other_content>>,
                result |->
                    [calls |-> [i \in 1..2 |->
                                   [peer |-> IF i = 1 THEN p ELSE q,
                                    pc |-> "called",
                                    filename |-> filename,
                                    content |-> IF i = 1 THEN content ELSE other_content,
                                    replica_nodes |-> <<>>,
                                    next |-> 1, stored_on |-> {}]],
                     requests |-> {}]]
    /\ UNCHANGED <<status, successor, predecessor, finger_table, next_finger,
                   files, token_index, puts, hist, leave, search, store,
                   registry, now, chord_node, updates, rank, tokenized,
                   pinging>>

\* the file_lock of node is held by a store_file call
file_lock_held(node) ==
    \E i \in 1..2 : /\ call.result.calls[i].peer = node
                    /\ call.result.calls[i].pc = "storing"

\* the i-th call enters store_file: file_lock, find_successor and
\* _get_replica_nodes
StoresEnter(i) ==
    /\ call.pc = "running" /\ call.fn = "store_file"
    /\ call.result.calls[i].pc = "called"
    /\ LET s == call.result.calls[i]
           file_hash == hash_key(s.filename)
           responsible_node == find_successor(s.peer, file_hash, {})
       IN  call' = [call EXCEPT
                       !.result.calls[i].pc =
                           IF responsible_node = None THEN "failed" ELSE "storing",
                       !.result.calls[i].replica_nodes =
                           IF responsible_node = None THEN <<>>
                           ELSE get_replica_nodes(s.peer, file_hash)]
    /\ UNCHANGED <<status, successor, predecessor, finger_table, next_finger,
                   files, token_index, puts, hist, leave, search, store,
                   registry, now, chord_node, updates, rank, tokenized,
                   pinging>>

\* one pass of the loop over replica_nodes in the i-th call:
\* _store_file_on_node(node), locally or through a store_file request that
\* gets the file_lock of node
StoresOnNode(i) ==
    /\ call.pc = "running" /\ call.fn = "store_file"
    /\ call.result.calls[i].pc = "storing"
    /\ call.result.calls[i].next <= Len(call.result.calls[i].replica_nodes)
    /\ LET s == call.result.calls[i]
           node == s.replica_nodes[s.next]
       IN  /\ node = s.peer \/ ~file_lock_held(node)
           /\ IF store_succeeds(s.peer, node)
              THEN /\ files' = [files EXCEPT ![node][s.filename] =
                                   stored_content(s.peer, node, s.content)]
                   /\ call' = [call EXCEPT !.result.calls[i].next = @ + 1,
                                           !.result.calls[i].stored_on = @ \cup {node}]
              ELSE /\ UNCHANGED files
                   /\ call' = [call EXCEPT !.result.calls[i].next = @ + 1]
    /\ UNCHANGED <<status, successor, predecessor, finger_table, next_finger,
                   token_index, puts, hist, leave, search, store,
                   registry, now, chord_node, updates, rank, tokenized,
                   pinging>>

\* _remote_store_file gives up after sock.settimeout(10.0) while the handler
\* at node waits for the file_lock: the pass counts as failed and the
\* request stays with the handler
StoresTimeout(i) ==
    /\ call.pc = "running" /\ call.fn = "store_file"
    /\ call.result.calls[i].pc = "storing"
    /\ call.result.calls[i].next <= Len(call.result.calls[i].replica_nodes)
    /\ LET s == call.result.calls[i]
           node == s.replica_nodes[s.next]
       IN  /\ node # s.peer /\ file_lock_held(node)
           /\ call' = [call EXCEPT
                          !.result.calls[i].next = @ + 1,
                          !.result.requests = @ \cup
                              {[to |-> node, filename |-> s.filename,
                                content |-> stored_content(s.peer, node, s.content)]}]
    /\ UNCHANGED <<status, successor, predecessor, finger_table, next_finger,
                   files, token_index, puts, hist, leave, search, store,
                   registry, now, chord_node, updates, rank, tokenized,
                   pinging>>

\* every store_file request of the two calls
StoreRequests == [to : Peers, filename : Filenames, content : WireContents]

\* _process_request, branch store_file, for a request that has waited: the
\* handler gets the file_lock and stores the record
StoresHandle(request) ==
    /\ call.pc = "running" /\ call.fn = "store_file"
    /\ request \in call.result.requests
    /\ ~file_lock_held(request.to)
    /\ files' = [files EXCEPT ![request.to][request.filename] = request.content]
    /\ call' = [call EXCEPT !.result.requests = @ \ {request}]
    /\ UNCHANGED <<status, successor, predecessor, finger_table, next_finger,
                   token_index, puts, hist, leave, search, store,
                   registry, now, chord_node, updates, rank, tokenized,
                   pinging>>

\* the end of the i-th call: _build_inverted_index and True when
\* success_count > 0; the file_lock is released
StoresFinish(i) ==
    /\ call.pc = "running" /\ call.fn = "store_file"
    /\ call.result.calls[i].pc = "storing"
    /\ call.result.calls[i].next > Len(call.result.calls[i].replica_nodes)
    /\ LET s == call.result.calls[i]
       IN  IF s.stored_on # {}
           THEN /\ token_index' = build_inverted_index(s.peer, s.filename,
                                                       s.replica_nodes[1], s.content)
                /\ call' = [call EXCEPT !.result.calls[i].pc = "returned True"]
           ELSE /\ UNCHANGED token_index
                /\ call' = [call EXCEPT !.result.calls[i].pc = "failed"]
    /\ UNCHANGED <<status, successor, predecessor, finger_table, next_finger,
                   files, puts, hist, leave, search, store,
                   registry, now, chord_node, updates, rank, tokenized,
                   pinging>>

NextStores ==
    \/ call.pc = "idle" /\ \E p \in Peers : \E q \in Peers :
           \E filename \in Filenames : \E content \in WireContents :
               \E other_content \in WireContents :
                   BeginStores(p, q, filename, content, other_content)
    \/ \E i \in 1..2 : StoresEnter(i)
    \/ \E i \in 1..2 : StoresOnNode(i)
    \/ \E i \in 1..2 : StoresTimeout(i)
    \/ \E request \in StoreRequests : StoresHandle(request)
    \/ \E i \in 1..2 : StoresFinish(i)

SpecStores == InitStable /\ [][NextStores]_vars

------------------------------------------------------------------------------
(* chord.py: two get calls at one peer.  Both wait on the one field         *)
(* self.getfunc_file, which the getfunc_file_spot branch of handleConnection *)
(* assigns; reading the field and emptying it are two statements.           *)

\* self.getfunc_file = (): reply_of is history, the file whose lookup the
\* address answers
NoSpot == [file_node |-> None, reply_of |-> None]

\* get(file) and get(other_file) are called at the peer self of the ring of
\* Peers, and both get_file_lookup calls return (" ", 0): the two
\* get_lookup_file messages are on their way round the ring.  In
\* call.result, replies holds the getfunc_file_spot messages not yet handled.
BeginGets(self, file, other_file) ==
    /\ call.pc = "idle"
    /\ file # other_file
    /\ get_file_lookup(Peers, self, hasher(file), self) = None
    /\ get_file_lookup(Peers, self, hasher(other_file), self) = None
    /\ call' = [pc |-> "running", fn |-> "get",
                args |-> <<self, file, other_file>>,
                result |->
                    [gets |-> [i \in 1..2 |->
                                  [fileName |-> IF i = 1 THEN file ELSE other_file,
                                   pc |-> "while control",
                                   file_node |-> NoSpot]],
                     getfunc_file |-> NoSpot,
                     replies |-> {[file_node |-> file_node_of_get(Peers, self, hasher(f)),
                                   reply_of |-> f] : f \in {file, other_file}}]]
    /\ UNCHANGED <<status, successor, predecessor, finger_table, next_finger,
                   files, token_index, puts, hist, leave, search, store,
                   registry, now, chord_node, updates, rank, tokenized,
                   pinging>>

\* every getfunc_file_spot message
SpotMessages == [file_node : Peers, reply_of : FileNames]

\* handleConnection, branch getfunc_file_spot
HandleSpot(m) ==
    /\ call.pc = "running" /\ call.fn = "get"
    /\ m \in call.result.replies
    /\ call' = [call EXCEPT !.result.getfunc_file = m,
                            !.result.replies = @ \ {m}]
    /\ UNCHANGED <<status, successor, predecessor, finger_table, next_finger,
                   files, token_index, puts, hist, leave, search, store,
                   registry, now, chord_node, updates, rank, tokenized,
                   pinging>>

\* the i-th get leaves its loop: len(self.getfunc_file) is not 0
GetLeavesLoop(i) ==
    /\ call.pc = "running" /\ call.fn = "get"
    /\ call.result.gets[i].pc = "while control"
    /\ call.result.getfunc_file # NoSpot
    /\ call' = [call EXCEPT !.result.gets[i].pc = "file_node = self.getfunc_file"]
    /\ UNCHANGED <<status, successor, predecessor, finger_table, next_finger,
                   files, token_index, puts, hist, leave, search, store,
                   registry, now, chord_node, updates, rank, tokenized,
                   pinging>>

\* file_node = self.getfunc_file
GetReads(i) ==
    /\ call.pc = "running" /\ call.fn = "get"
    /\ call.result.gets[i].pc = "file_node = self.getfunc_file"
    /\ call' = [call EXCEPT !.result.gets[i].file_node = call.result.getfunc_file,
                            !.result.gets[i].pc = "self.getfunc_file = ()"]
    /\ UNCHANGED <<status, successor, predecessor, finger_table, next_finger,
                   files, token_index, puts, hist, leave, search, store,
                   registry, now, chord_node, updates, rank, tokenized,
                   pinging>>

\* self.getfunc_file = (), then the validation of file_node and send_file to
\* that peer
GetContacts(i) ==
    /\ call.pc = "running" /\ call.fn = "get"
    /\ call.result.gets[i].pc = "self.getfunc_file = ()"
    /\ call' = [call EXCEPT !.result.getfunc_file = NoSpot,
                            !.result.gets[i].pc =
                                IF call.result.gets[i].file_node = NoSpot
                                THEN "Invalid file node" ELSE "send_file"]
    /\ UNCHANGED <<status, successor, predecessor, finger_table, next_finger,
                   files, token_index, puts, hist, leave, search, store,
                   registry, now, chord_node, updates, rank, tokenized,
                   pinging>>

NextGets ==
    \/ call.pc = "idle" /\ \E self \in Peers : \E file \in FileNames :
           \E other_file \in FileNames : BeginGets(self, file, other_file)
    \/ \E m \in SpotMessages : HandleSpot(m)
    \/ \E i \in 1..2 : GetLeavesLoop(i)
    \/ \E i \in 1..2 : GetReads(i)
    \/ \E i \in 1..2 : GetContacts(i)

SpecGets == Init /\ [][NextGets]_vars

------------------------------------------------------------------------------
(* quic_transport.py and chord_node_v3.py: one QUIC connection from a       *)
(* client's ChordQuicProtocol to a QuicChordNode.  In call.result,          *)
(* request_counter and pending_requests are the client protocol's fields,   *)
(* to_server and to_client the stream data on its way, and futures the      *)
(* state of the future of every send_request.                               *)

MaxRequests == 2

\* the message types QuicChordNode registers a handler for
MessageTypes == {"FIND_SUCCESSOR", "GET_PREDECESSOR", "GET_SUCCESSOR", "NOTIFY",
                 "STORE_FILE", "SEARCH_FILES", "STORE_TOKEN", "PING"}

\* the request_id of the message a QuicChordNode handler returns for a
\* request: _handle_find_successor returns what
\* build_find_successor_response built, whose request_id is never assigned
\* and keeps the default 0 of the field; the other handlers copy the
\* request's
response_request_id(type, request_id) ==
    IF type = "FIND_SUCCESSOR" THEN 0 ELSE request_id

\* a Future of send_request: not created, pending, done with a result or
\* with an exception
NoFuture == [state |-> "none", result |-> [type |-> "", request_id |-> 0, answers |-> 0]]

\* QuicChordClient.get_connection: a new ChordQuicProtocol
Connect ==
    /\ call.pc = "idle"
    /\ call' = [pc |-> "running", fn |-> "send_request", args |-> <<>>,
                result |-> [request_counter |-> 0, pending_requests |-> {},
                            to_server |-> {}, to_client |-> {},
                            futures |-> [id \in 1..MaxRequests |-> NoFuture],
                            terminated |-> FALSE]]
    /\ UNCHANGED <<status, successor, predecessor, finger_table, next_finger,
                   files, token_index, puts, hist, leave, search, store,
                   registry, now, chord_node, updates, rank, tokenized,
                   pinging>>

\* ChordQuicProtocol.send_request up to its await
SendRequest(type) ==
    /\ call.pc = "running" /\ call.fn = "send_request"
    /\ ~call.result.terminated
    /\ call.result.request_counter < MaxRequests
    /\ LET request_id == call.result.request_counter + 1
       IN  call' = [call EXCEPT
                       !.result.request_counter = request_id,
                       !.result.pending_requests = @ \cup {request_id},
                       !.result.futures[request_id].state = "pending",
                       !.result.to_server = @ \cup
                           {[type |-> type, request_id |-> request_id]}]
    /\ UNCHANGED <<status, successor, predecessor, finger_table, next_finger,
                   files, token_index, puts, hist, leave, search, store,
                   registry, now, chord_node, updates, rank, tokenized,
                   pinging>>

\* every request and every response on the connection; answers is history,
\* the request_id of the request the response was built for
Requests == [type : MessageTypes, request_id : 1..MaxRequests]

Responses == [type : MessageTypes, request_id : 0..MaxRequests,
              answers : 1..MaxRequests]

\* _handle_stream_data at the server's protocol, which has no pending
\* request: _process_request calls the handler and the response goes back
HandleRequest(message) ==
    /\ call.pc = "running" /\ call.fn = "send_request"
    /\ message \in call.result.to_server
    /\ call' = [call EXCEPT
                   !.result.to_server = @ \ {message},
                   !.result.to_client = @ \cup
                       {[type |-> message.type,
                         request_id |-> response_request_id(message.type,
                                                            message.request_id),
                         answers |-> message.request_id]}]
    /\ UNCHANGED <<status, successor, predecessor, finger_table, next_finger,
                   files, token_index, puts, hist, leave, search, store,
                   registry, now, chord_node, updates, rank, tokenized,
                   pinging>>

\* _handle_stream_data at the client's protocol: a message whose request_id
\* is pending completes that future; any other is taken for a request, for
\* which the client has no handler
HandleResponse(message) ==
    /\ call.pc = "running" /\ call.fn = "send_request"
    /\ message \in call.result.to_client
    /\ call' = IF message.request_id \in call.result.pending_requests
               THEN [call EXCEPT
                        !.result.to_client = @ \ {message},
                        !.result.pending_requests = @ \ {message.request_id},
                        !.result.futures[message.request_id] =
                            IF @.state = "pending"
                            THEN [state |-> "result", result |-> message] ELSE @]
               ELSE [call EXCEPT !.result.to_client = @ \ {message}]
    /\ UNCHANGED <<status, successor, predecessor, finger_table, next_finger,
                   files, token_index, puts, hist, leave, search, store,
                   registry, now, chord_node, updates, rank, tokenized,
                   pinging>>

\* asyncio.wait_for gives up on the request: the entry is popped and
\* TimeoutError raised
RequestTimeout(request_id) ==
    /\ call.pc = "running" /\ call.fn = "send_request"
    /\ call.result.futures[request_id].state = "pending"
    /\ call' = [call EXCEPT
                   !.result.pending_requests = @ \ {request_id},
                   !.result.futures[request_id].state = "TimeoutError"]
    /\ UNCHANGED <<status, successor, predecessor, finger_table, next_finger,
                   files, token_index, puts, hist, leave, search, store,
                   registry, now, chord_node, updates, rank, tokenized,
                   pinging>>

\* _handle_connection_terminated, and the except branch of send_request for
\* every request that was waiting
ConnectionTerminated ==
    /\ call.pc = "running" /\ call.fn = "send_request"
    /\ ~call.result.terminated
    /\ call' = [call EXCEPT
                   !.result.terminated = TRUE,
                   !.result.pending_requests = {},
                   !.result.to_server = {},
                   !.result.to_client = {},
                   !.result.futures =
                       [id \in 1..MaxRequests |->
                           IF call.result.futures[id].state = "pending"
                           THEN [call.result.futures[id] EXCEPT
                                     !.state = "ConnectionError"]
                           ELSE call.result.futures[id]]]
    /\ UNCHANGED <<status, successor, predecessor, finger_table, next_finger,
                   files, token_index, puts, hist, leave, search, store,
                   registry, now, chord_node, updates, rank, tokenized,
                   pinging>>

NextQuic ==
    \/ Connect
    \/ \E type \in MessageTypes : SendRequest(type)
    \/ \E message \in Requests : HandleRequest(message)
    \/ \E message \in Responses : HandleResponse(message)
    \/ \E request_id \in 1..MaxRequests : RequestTimeout(request_id)
    \/ ConnectionTerminated

SpecQuic == Init /\ [][NextQuic]_vars

------------------------------------------------------------------------------
(* Vocabulary of the properties.                                            *)

\* the running peer whose id is the first at or clockwise after key
TrueSuccessor(key) ==
    CHOOSE q \in Live : \A r \in Live :
        (q - key + RING_SIZE) % RING_SIZE <= (r - key + RING_SIZE) % RING_SIZE

\* every running peer's successor is the next running peer clockwise and
\* that successor's predecessor is the peer itself
RingClosed ==
    \A p \in Live :
        /\ successor[p] = TrueSuccessor((p + 1) % RING_SIZE)
        /\ predecessor[successor[p]] = p

Stopped == {p \in AllPeers : status[p] = "stopped"}

Crashed == {p \in AllPeers : status[p] = "crashed"}

\* one peer founded the ring, every other started peer joined through a
\* running peer, and none has failed or left
PlainGrowth ==
    /\ hist.founders = 1
    /\ hist.departures = 0

\* one ring, settled when one of its peers departed; the running peers are
\* the ones that were running with it, and they have settled again
AfterDeparture ==
    /\ hist.founders = 1
    /\ hist.departures = 1
    /\ hist.quietDeparture
    /\ Live # {}
    /\ Live = hist.members \ (Stopped \cup Crashed)
    /\ Quiescent

------------------------------------------------------------------------------
(* C1..C10.                                                                 *)

\* C1: with two or more peers, one founder and every other peer joined via a
\* joined peer, no failure and no leave, once the stabilize, fix_fingers and
\* check_predecessor rounds have nothing left to change, every peer's
\* successor is the next peer clockwise and that successor's predecessor is
\* the peer itself.
C1_RingCloses ==
    (Cardinality(Live) >= 2 /\ PlainGrowth /\ Quiescent) => RingClosed

\* C2: once membership has stopped changing (one ring, here with no failure
\* and no leave at all) and the maintenance rounds have nothing left to
\* change, find_successor(k) at every running peer returns, for every key k,
\* the running peer whose id is the first at or clockwise after k.
C2_RoutingConverges ==
    (PlainGrowth /\ Quiescent) =>
        \A p \in Live : \A k \in 0..(RING_SIZE - 1) :
            find_successor(p, k, {}) = TrueSuccessor(k)

\* C3: on a settled ring with no failure, leave or join since the put, a
\* file whose store_file returned success while the ring was settled is
\* returned with its bytes by download_file at every peer.
C3_PlacedFileIsDownloadable ==
    (PlainGrowth /\ Quiescent) =>
        \A f \in Filenames :
            (puts[f] # NoPut /\ puts[f].quiet /\ puts[f].members = Live) =>
                \A p \in Live : download_file(p, f) = puts[f].content

\* C4: a store_file(f, b) that returns success is followed by a
\* download_file(f), at the same peer with nothing in between, that returns
\* exactly b, for every byte string b offered (empty and not valid UTF-8
\* included).
C4_RoundTrip ==
    [][\A f \in Filenames : \A p \in AllPeers :
          (puts'[f] # puts[f] /\ puts'[f].by = p) =>
              download_file(p, f)' = puts'[f].content]_vars

\* C5: after a peer has left gracefully from a settled ring (and no peer
\* crashed or joined), once the remaining peers have settled again every file that
\* every peer could download before the leave is still returned with its
\* bytes by download_file at every remaining peer.
C5_LeaveThenGet ==
    (Stopped # {} /\ AfterDeparture) =>
        \A f \in hist.gettable : \A p \in Live :
            download_file(p, f) = puts[f].content

\* the middle id of the three peers
MiddlePeer == CHOOSE p \in Peers : \E a, b \in Peers : a < p /\ p < b

\* C6: three peers in a settled ring, the peer with the middle id crashes:
\* once the survivors have settled they have each other as successor and as
\* predecessor.
C6_SurvivorsFormTwoRing ==
    (/\ hist.members = Peers
     /\ Crashed = {MiddlePeer}
     /\ AfterDeparture) =>
        \A a \in Live : \A b \in Live \ {a} :
            successor[a] = b /\ predecessor[a] = b

\* C7: after a single crash in a settled ring, once the survivors have settled, every file
\* whose primary owner was the crashed peer and that every peer could
\* download before the crash is still returned with its bytes by
\* download_file at each survivor.
C7_ReplicasSurviveCrash ==
    (Crashed # {} /\ AfterDeparture) =>
        \A f \in hist.gettable :
            puts[f].primary \in Crashed =>
                \A p \in Live : download_file(p, f) = puts[f].content

\* C8: a file put before new peers joined is, once the ring has settled
\* again (no failure, no leave), still returned with its bytes by
\* download_file at every peer.
C8_JoinKeepsFilesReachable ==
    (PlainGrowth /\ Quiescent) =>
        \A f \in Filenames :
            (/\ puts[f] # NoPut
             /\ puts[f].members # Live
             /\ puts[f].members \subseteq Live) =>
                \A p \in Live : download_file(p, f) = puts[f].content

\* the relevance score |Q \cap tokens(f)| / |Q| of file f for query q
ExpectedScore(q, f) ==
    [num |-> Cardinality(tokenize_filename(q) \cap tokenize_filename(f)),
     den |-> Cardinality(tokenize_filename(q))]

\* C9: on a settled ring, for every query whose token set Q is not empty and
\* every file stored (while the ring was settled, no join, failure or leave
\* since) whose tokens share a token with Q, search_files_distributed at
\* every peer returns the file with score |Q \cap tokens(f)| / |Q|.
C9_SearchSound ==
    (PlainGrowth /\ Quiescent) =>
        \A f \in Filenames : \A q \in Queries :
            (/\ puts[f] # NoPut /\ puts[f].quiet /\ puts[f].members = Live
             /\ tokenize_filename(q) \cap tokenize_filename(f) # {}) =>
                \A p \in Live :
                    \E r \in search_files_distributed(p, q) :
                        r.filename = f /\ r.score = ExpectedScore(q, f)

\* C10: after a peer has left gracefully from a settled ring (no crash, no
\* join) and handed over to its successor, once the remaining peers have
\* settled, a search at a remaining peer returns every file the same query
\* returned there before the leave.
C10_SearchSurvivesLeave ==
    (Stopped # {} /\ hist.handover /\ AfterDeparture) =>
        \A p \in Live : \A q \in Queries :
            hist.found[p][q] \subseteq
                {r.filename : r \in search_files_distributed(p, q)}

\* C11: a search issued at one peer while another peer's graceful leave is in
\* progress finishes (every lookup that fails yields no record, none raises)
\* and returns only files that the same query returned at that peer before
\* the leave began, whatever the interleaving of its token lookups with the
\* steps of the leave.
C11_SearchDuringLeave ==
    search.pc = "done" =>
        {r.filename : r \in search_results}
            \subseteq hist.found[search.peer][search.query]

\* C12: every store_file that returned success stored the file on its
\* primary owner, the first node of the replica list (a store that failed on
\* the primary is reported as a failure, whatever the other replicas did).
C12_SuccessMeansPrimary ==
    \A f \in Filenames :
        puts[f] # NoPut => puts[f].primary \in puts[f].replicas

\* C13: stop() returns in every case: while a stop() is running, its thread
\* or the store_file thread of the same peer (whose lock it may be waiting
\* for) can take a step.
C13_StopReturns ==
    leave.pc \notin {"idle", "done"} => ENABLED StopCanProceed

\* C14: a query whose token set is empty (the empty string and whitespace
\* only included) makes search return no result at every running peer.
C14_EmptyQueryFindsNothing ==
    \A p \in Live : \A query \in EmptyQueries : search_any_query(p, query) = {}

\* C15: the results of a search are in descending order of relevance, and
\* results of equal relevance are in ascending lexicographic order of their
\* filenames (so the order is the same on every run and at every peer).
C15_RankedOrder ==
    rank.pc = "sorted" =>
        \A i, j \in 1..Len(rank.results) :
            i < j =>
                \/ score_less(rank.results[j].score, rank.results[i].score)
                \/ /\ score_equal(rank.results[i].score, rank.results[j].score)
                   /\ str_less(rank.results[i].filename, rank.results[j].filename)

------------------------------------------------------------------------------
(* C16..C19: the bootstrap registry.                                        *)

\* the entries of a registry without their heartbeat times
pointers(reg) ==
    {[addr |-> reg[i].addr, successor |-> reg[i].successor,
      predecessor |-> reg[i].predecessor] : i \in 1..Len(reg)}

\* a live peer's entry was removed by the monitor
EvictedAlive(a) == chord_node[a].running /\ a \notin addrs(registry)

\* C16: a register for an address that already has an entry leaves the
\* registry with the same entries and the same successor and predecessor
\* pointers.
C16_DuplicateRegister ==
    [][\A a \in Peers :
          (a \in addrs(registry) /\ NodeJoin(a)) =>
              pointers(registry') = pointers(registry)]_vars

\* C17: a topology update sent because the monitor removed the entry of a
\* peer whose process was running changes no peer's successor or
\* predecessor.
C17_EvictionIsAdvisory ==
    [][\A m \in TopologyUpdates :
          (m.live_evicted /\ HandleTopologyUpdate(m)) =>
              \A a \in Peers :
                  /\ chord_node'[a].successor = chord_node[a].successor
                  /\ chord_node'[a].predecessor = chord_node[a].predecessor]_vars

\* C18: an entry leaves the registry, other than by its peer's leave, only
\* in a step at which its last heartbeat is older than HEARTBEAT_TIMEOUT; a
\* monitor pass leaves no entry that old behind and removes no entry whose
\* last heartbeat is within the timeout.
C18_RemovedIffStale ==
    [][/\ \A a \in addrs(registry) \ addrs(registry') :
              \/ QuitWithTransfer(a)
              \/ now - entry_of(registry, a).last_heartbeat > HEARTBEAT_TIMEOUT
       /\ MonitorHeartbeats =>
              /\ \A a \in addrs(registry') :
                     now - entry_of(registry', a).last_heartbeat <= HEARTBEAT_TIMEOUT
              /\ \A a \in addrs(registry) :
                     now - entry_of(registry, a).last_heartbeat <= HEARTBEAT_TIMEOUT
                         => a \in addrs(registry')]_vars

\* a monitor pass has removed the entry of a running peer and kept an entry
\* refreshed by a heartbeat after its registration
C18_Witness ==
    /\ now = MaxTime
    /\ \E a \in Peers : EvictedAlive(a)
    /\ \E b \in addrs(registry) :
           /\ entry_of(registry, b).last_heartbeat > 0
           /\ now - entry_of(registry, b).last_heartbeat <= HEARTBEAT_TIMEOUT
           /\ chord_node[b].starts = 1

\* C19: a running peer that has no entry is registered again by its next
\* heartbeat round: the round that is answered not_registered ends with the
\* peer in the registry.
C19_UnknownReRegisters ==
    \A a \in Peers :
        EvictedAlive(a) => ENABLED (SendHeartbeat(a) /\ a \in addrs(registry'))

------------------------------------------------------------------------------
(* C20: tokenize_filename.                                                  *)

\* the name without its final extension: what precedes the last "." when
\* something other than dots precedes it, else the whole name
Stem(name) ==
    IF \E d \in 1..Len(name) :
           /\ name[d] = "."
           /\ \A k \in (d + 1)..Len(name) : name[k] # "."
           /\ \E k \in 1..(d - 1) : name[k] # "."
    THEN SubSeq(name, 1, (CHOOSE d \in 1..Len(name) :
                              /\ name[d] = "."
                              /\ \A k \in (d + 1)..Len(name) : name[k] # ".") - 1)
    ELSE name

Separator(c) == c = " " \/ c = "_" \/ c = "-" \/ c = "."

\* the pieces between separators, lower-cased
Segments(s) ==
    {[k \in 1..(j - i + 1) |-> Lower(s[i + k - 1])] : <<i, j>> \in
        {x \in (1..Len(s)) \X (1..Len(s)) :
            /\ x[1] <= x[2]
            /\ \A k \in x[1]..x[2] : ~Separator(s[k])
            /\ x[1] > 1 => Separator(s[x[1] - 1])
            /\ x[2] < Len(s) => Separator(s[x[2] + 1])}}

\* a proper prefix of seg of length at least 3
IsPartial(t, seg) ==
    /\ Len(t) >= 3
    /\ Len(t) <= Len(seg) - 1
    /\ \A k \in 1..Len(t) : t[k] = seg[k]

\* C20: tokenize_filename(name) is exactly the set of the segments of length
\* at least 2 of the lower-cased name without its final extension (split on
\* whitespace, "_", "-" and "."), together with every prefix of such a
\* segment of length 3 up to one less than the segment's length.
C20_TokensAsStated ==
    tokenized.pc = "returned" =>
        LET kept == {seg \in Segments(Stem(tokenized.filename)) : Len(seg) >= 2}
        IN  /\ kept \subseteq tokenized.all_tokens
            /\ \A seg \in kept : \A n \in 3..(Len(seg) - 1) :
                   SubSeq(seg, 1, n) \in tokenized.all_tokens
            /\ \A t \in tokenized.all_tokens :
                   t \in kept \/ \E seg \in kept : IsPartial(t, seg)

\* a name with an upper-case letter and an extension, whose tokens are its
\* one segment and the proper prefix of length 3 of that segment
C20_Witness ==
    /\ tokenized.pc = "returned"
    /\ tokenized.filename = <<"a", "B", "a", "a", ".", "a">>
    /\ tokenized.all_tokens = {<<"a", "b", "a", "a">>, <<"a", "b", "a">>}

------------------------------------------------------------------------------
(* C21: compute_relevance_score.                                            *)

\* the call of fn has returned
Returned(fn) == call.pc = "returned" /\ call.fn = fn

\* the number of entries of Q that occur in F
Matched(Q, F) ==
    Cardinality({i \in 1..Len(Q) : \E j \in 1..Len(F) : F[j] = Q[i]})

\* C21: compute_relevance_score(Q, F) is 0 when Q is empty and is
\* |Q /\ F| / |Q| otherwise, F empty included: the entries of Q that occur in
\* F over the entries of Q, which for a list Q without repetitions (a result
\* of tokenize_filename) is the ratio of the two sets' sizes.
C21_ScoreIsMatchedShare ==
    Returned("compute_relevance_score") =>
        LET Q == call.args[1]
            F == call.args[2]
            score == call.result
            asSet(L) == {L[i] : i \in 1..Len(L)}
        IN  /\ score.den > 0
            /\ Len(Q) = 0 => score.num = 0
            /\ Len(Q) > 0 => score.num * Len(Q) = Matched(Q, F) * score.den
            /\ (Len(Q) > 0 /\ Cardinality(asSet(Q)) = Len(Q)) =>
                   score.num * Cardinality(asSet(Q)) =
                       Cardinality(asSet(Q) \cap asSet(F)) * score.den

\* a query of two tokens of which the file has one, and one more: score 1/2
C21_Witness ==
    /\ Returned("compute_relevance_score")
    /\ call.args = <<(<<(<<"a", "b">>), (<<"c", "d">>)>>),
                     (<<(<<"x", "y", "a">>), (<<"a", "b">>)>>)>>
    /\ call.result.num * 2 = call.result.den

------------------------------------------------------------------------------
(* C22, C23: the locks of a peer.                                           *)

\* the store_file thread of p is at a request to another peer: the next
\* pass of its loop sends the file to a node other than p
StoreAtRemoteRequest(p) ==
    /\ store.peer = p
    /\ store.pc = "storing"
    /\ store.next <= Len(store.replica_nodes)
    /\ store.replica_nodes[store.next] # p

\* the stop() thread of p is at a request to another peer: a file transfer
\* or one of the two departure notifications
LeaveAtRemoteRequest(p) ==
    /\ leave.peer = p
    /\ leave.pc \in {"transfer", "notify_predecessor", "notify_successor"}

\* the store_file thread of p asks for ring_lock (find_successor)
StoreRequestsRingLock(p) == store.peer = p /\ store.pc = "find_successor"

\* C22: no thread of a peer is at a network request to another peer while
\* it holds file_lock or ring_lock.
C22_NoLockAcrossRequest ==
    \A p \in Peers :
        /\ ~(StoreHoldsFileLock(p) /\ StoreAtRemoteRequest(p))
        /\ ~(p \in Leaving /\ LeaveAtRemoteRequest(p))

\* C23: no thread of a peer asks for ring_lock while it holds file_lock.
C23_RingBeforeFile ==
    \A p \in Peers : ~(StoreHoldsFileLock(p) /\ StoreRequestsRingLock(p))

------------------------------------------------------------------------------
(* C24..C30: routing, stabilization and departure.                          *)

\* C24: in a ring whose successor and predecessor pointers are all correct,
\* find_successor(k) at any peer returns the first peer at or clockwise
\* after k, whatever the finger tables hold.
C24_FingersAreHints ==
    (Returned("find_successor") /\ RingClosed) =>
        call.result = TrueSuccessor(call.args[2])

\* C25: a peer that successor recovery left as its own successor while other
\* peers are running has a running successor other than itself once the
\* stabilize rounds (and the other timers) have nothing left to change.
\* Checked in the case most favourable to the peer: one ring was ever
\* founded, and the peer's predecessor is a running peer that has it as
\* successor and so notifies it in every stabilize round.
C25_SingletonRejoins ==
    \A p \in hist.singled : \A q \in Live \ {p} :
        (/\ Alive(p)
         /\ hist.founders = 1
         /\ predecessor[p] = q
         /\ successor[q] = p
         /\ Quiescent) =>
            (successor[p] # p /\ Alive(successor[p]))

\* C26: a stabilize round at a running peer whose successor cannot be
\* reached (its get_predecessor request fails) runs successor recovery: the
\* successor the round leaves is the one _recover_successor chooses.
C26_StabilizeRecovers ==
    \A p \in Peers :
        (Alive(p) /\ successor[p] # p /\ ~ping_node(successor[p])) =>
            stabilize_successor(p) =
                recover_successor(p, finger_table[p], predecessor[p])

\* C27: when find_successor at a running peer forwards the request to a
\* finger and that peer does not answer, find_successor still returns a
\* peer (another finger or the current successor), never nothing.
C27_ForwardFailureFallsBack ==
    \A p \in Peers : \A key_id \in 0..(RING_SIZE - 1) :
        LET closest == closest_preceding_node(p, key_id)
        IN  (/\ Alive(p)
             /\ successor[p] # p
             /\ ~in_range(key_id, p, successor[p])
             /\ closest # p
             /\ ~Alive(closest)) =>
                find_successor(p, key_id, {}) # None

\* C28: in a stable ring of three peers, once graceful_leave of P has
\* returned (its predecessor X and successor Y were reachable), X.successor
\* is Y and Y.predecessor is X, and no step of any peer, a maintenance tick
\* of P included, makes them point to P again: from then on no running peer
\* other than P has P as successor or as predecessor.
C28_LeaverIsForgotten ==
    leave.pc \in {"stop", "done"} =>
        \A q \in Live \ {leave.peer} :
            successor[q] # leave.peer /\ predecessor[q] # leave.peer

\* x lies strictly between a and b going clockwise from a
StrictlyBetween(x, a, b) ==
    \E i \in 1..(((b - a + RING_SIZE) % RING_SIZE) - 1) :
        x = (a + i) % RING_SIZE

Degenerate == call.pc = "returned" /\ call.args[2] = call.args[3]

\* the call that returned tested the open interval, or the right-closed one
OpenTest ==
    \/ Returned("_is_between")
    \/ Returned("ChordPeer.in_range") /\ ~call.args[4]

RightClosedTest ==
    \/ Returned("in_range")
    \/ Returned("ChordPeer.in_range") /\ call.args[4]

\* C30 as stated: for every x and a the open test of (a, a) is false and the
\* right-closed test of (a, a] is x = a.
C30_EmptyWhenEndsMeet ==
    Degenerate =>
        /\ OpenTest => call.result = FALSE
        /\ RightClosedTest => call.result = (call.args[1] = call.args[2])

\* C30, amended: for every x and a the open test of (a, a) is x # a and the
\* right-closed test of (a, a] is true: an interval whose ends meet is the
\* whole ring, without a for the open test.
C30_WholeRingWhenEndsMeet ==
    Degenerate =>
        /\ OpenTest => call.result = (call.args[1] # call.args[2])
        /\ RightClosedTest => call.result = TRUE

\* in_range(2, 5, 5) returned True
C30_Witness ==
    /\ Returned("in_range")
    /\ call.args = <<2, 5, 5>>
    /\ call.result = TRUE

------------------------------------------------------------------------------
(* C31..C40: chord.py, concurrent calls and the QUIC transport.             *)

\* the key lies in (a, b] going clockwise from a
InArc(key, a, b) ==
    \E i \in 1..((b - a + RING_SIZE) % RING_SIZE) : key = (a + i) % RING_SIZE

\* the rehash of a newcomer returned, and the successor held only files of
\* its own arc (pred, succ] before it
RehashOfOwnedFiles ==
    /\ Returned("perform_file_rehashing") \/ Returned("ChordPeer.notify")
    /\ \A file \in Range(call.args[4]) :
           InArc(hasher(file), call.args[1], call.args[3])

\* C31: when a newcomer joins between X and Y, the files moved from Y to it
\* are exactly the files of Y whose key lies in (X.id, new.id]; the files
\* whose key lies in (new.id, Y.id] stay at Y.
C31_MovedArc ==
    RehashOfOwnedFiles =>
        LET X == call.args[1]
            new == call.args[2]
        IN  Range(call.result.moved) =
                {file \in Range(call.args[4]) : InArc(hasher(file), X, new)}

\* C32: after a rehash pull that completes without failure (the transfer,
\* then the delete list), no file handed to the newcomer is left in the
\* successor's primary list: each moved file is held by exactly one of the
\* two peers.
C32_MovedFilesLeave ==
    Returned("perform_file_rehashing") =>
        Range(call.result.moved) \cap Range(call.result.kept) = {}

\* C33: in chord.py, a graceful leave sends every primary file the leaving
\* peer holds to its successor, and to no other peer.
C33_FilesGoToSuccessor ==
    Returned("transfer_files_before_leaving") =>
        LET node_files == call.args[2]
            succ == call.args[3]
        IN  /\ {q.file : q \in Range(call.result)} = Range(node_files)
            /\ \A q \in Range(call.result) : q.target_node = succ

\* C34: in chord.py's pinging loop, two consecutive failed probes of the
\* successor make the peer treat it as dead and replace it with its recorded
\* successor of the successor in that pass: no running peer is left with two
\* failed probes in a row of the successor it still has.
C34_TwoFailuresRecover ==
    \A a \in Peers : chord_node[a].running => pinging[a].failed < 2

\* C35: a request with an unknown type, without a required field or with an
\* id outside [0, 2^m) is answered with an error and leaves the receiving
\* peer's successor and predecessor as they were.
C35_InvalidRequestRejected ==
    Returned("_process_request") =>
        LET q == call.args[1]
        IN  /\ call.result.success = FALSE
            /\ successor[q] = call.args[3]
            /\ predecessor[q] = call.args[4]

\* the pointers of the running peers are those the registry records
AgreesWithRegistry ==
    \A a \in Peers :
        chord_node[a].running =>
            /\ a \in addrs(registry)
            /\ chord_node[a].successor = entry_of(registry, a).successor
            /\ chord_node[a].predecessor = entry_of(registry, a).predecessor

\* C36: when peers have joined through the registry at the same time and
\* every message of their joins has been delivered, the successor and the
\* predecessor of every peer are those the registry records for it,
\* whatever the order of delivery.
C36_JoinsAgreeWithRegistry ==
    (updates = {} /\ Cardinality({a \in Peers : chord_node[a].running}) >= 3)
        => AgreesWithRegistry

\* C37: for every key and every consistent ring of at least three peers,
\* the peer on which put stores a file is the peer that get contacts for
\* it, from whichever peers the two are issued.
C37_GetFindsWhatPutStored ==
    Returned("put_get") => call.result.put_file = call.result.send_file

\* both of the two store_file calls have returned True and no request of
\* theirs is left with a handler
BothStored ==
    /\ call.pc = "running" /\ call.fn = "store_file"
    /\ \A i \in 1..2 : call.result.calls[i].pc = "returned True"
    /\ call.result.requests = {}

\* C38: when two store_file calls for one filename with different contents,
\* issued at different peers at the same time, have both returned, all the
\* peers that hold the filename hold the same content.
C38_ReplicasAgree ==
    BothStored =>
        \A p \in Peers : \A q \in Peers :
            (files[p][call.args[1]] # NoContent /\ files[q][call.args[1]] # NoContent)
                => files[p][call.args[1]] = files[q][call.args[1]]

\* C39: when two get calls for different files run at one peer at the same
\* time and both lookups were forwarded, each get contacts the peer resolved
\* for its own file: the lookup reply for one file is never consumed by the
\* get of the other.
C39_GetTakesOwnReply ==
    (call.pc = "running" /\ call.fn = "get") =>
        \A i \in 1..2 :
            call.result.gets[i].pc = "send_file" =>
                /\ call.result.gets[i].file_node.reply_of = call.result.gets[i].fileName
                /\ call.result.gets[i].file_node.file_node =
                       file_node_of_get(Peers, call.args[1],
                                        hasher(call.result.gets[i].fileName))

\* a connection is open or was open
OnConnection == call.pc = "running" /\ call.fn = "send_request"

\* every response on its way carries the request_id of its request
ResponsesCarryRequestId ==
    OnConnection =>
        \A message \in call.result.to_client : message.request_id = message.answers

\* a send_request is completed by the response to its own request only, and
\* one that ended with an error has no entry left in pending_requests
CompletedByOwnResponse ==
    OnConnection =>
        \A id \in 1..MaxRequests :
            /\ call.result.futures[id].state = "result" =>
                   call.result.futures[id].result.answers = id
            /\ call.result.futures[id].state \in {"TimeoutError", "ConnectionError"} =>
                   id \notin call.result.pending_requests

\* C40: every response a QuicChordNode handler returns carries the
\* request_id of the request it answers, and each send_request is completed
\* by its own response only, or ends by its timeout or by the termination of
\* the connection with its entry removed from pending_requests.
C40_ResponsesMatchRequests ==
    ResponsesCarryRequestId /\ CompletedByOwnResponse

====
